---- MODULE Spec2Model ----
(***************************************************************************)
(* Model of the TG_ERP identity core: the auth-service controllers         *)
(* (register / login / verify2FA / refreshToken / logout), the             *)
(* authenticate middleware, the api-gateway authMiddleware and the parts   *)
(* of the user controller and message broker those handlers call.          *)
(*                                                                         *)
(* Every handler is an async function.  Code between two awaits runs       *)
(* atomically on the node event loop, so each action below is one such     *)
(* run-to-completion segment; a handler with several awaits is a request   *)
(* slot that moves through its pc values and may interleave with others.   *)
(*                                                                         *)
(* Time is a discrete clock.  The three durations of the source (10 min,   *)
(* 1 d, 7 d) are scaled to 1, 2 and 3 ticks: only their order matters.     *)
(***************************************************************************)
EXTENDS Integers, FiniteSets, Sequences, TLC

\* ------------------------------------------------------------------ bounds
MaxTime == 3
MaxCodeTime == 2
MaxRequests == 3
MaxSession == 4
NumSlots == 2

\* --------------------------------------------------------- program constants
CodeExpiresIn == 1
JwtExpiresIn == 2
JwtRefreshExpiresIn == 3

\* setTimeout(setupMessageBroker, 5000): one tick of the timers
ReconnectDelay == 1

\* createChannel calls are counted up to this number
MaxChannels == 2

\* ------------------------------------------------------------- value universes
TelegramIds == {"t1", "t2"}
UserIds == {"u1", "u2"}
Codes == {"c1", "c2"}
RoleIds == {"r1", "r2"}
PermissionIds == {"p1", "p2"}
Slots == 1..NumSlots

AuthSecret == "auth"
GatewaySecrets == {"unset", "auth", "other"}

NoUser == [telegramId |-> "-", isActive |-> FALSE, lastLogin |-> -1]
NoCode == [code |-> "-", expires |-> -1, iss |-> 0, tid |-> "-"]
NoToken == [id |-> "-", type |-> "-", exp |-> -1, sig |-> "-"]
NoPair == [token |-> NoToken, refreshToken |-> NoToken]
NoRes == [status |-> 0, message |-> "-"]
NoEvent == [key |-> "-", delivered |-> FALSE]

NoHist == [issued |-> NoCode, wrong |-> 0, consumed |-> "-"]
NoRole == [name |-> "-"]
NoPermission == [resource |-> "-", action |-> "-"]
NoSettlement == [msg |-> "-", acks |-> 0, nacks |-> 0, requeue |-> FALSE,
                 rejected |-> FALSE]
NoDelivery == [consumer |-> "-", nth |-> 0]
NoPublish == [channel |-> "-", outcome |-> "-", returned |-> FALSE]
NoCall == [method |-> "-", baseUrl |-> <<>>, requiredRoles |-> {},
           allowSelf |-> FALSE, id |-> "-"]

Res(s, m) == [status |-> s, message |-> m]

VARIABLES
    users,              \* the users table: id -> row
    verificationCodes,  \* the in-memory 2FA map: telegramId -> entry
    bot,                \* whether index.ts created the Telegraf instance
    channel,            \* messageBroker's module-level channel: "null" / "open"
    now,                \* the clock read by Date.now() and by jwt
    slots,              \* in-flight and just-answered multi-await requests
    tokens,             \* tokens handed to clients in 200 answers
    nreq,               \* number of requests accepted so far
    hist,               \* history per telegramId: the entry login stored
                        \* last, the mismatches answered since, and how
                        \* that entry left the map ("no" while it has not)
    used,               \* history: refresh tokens refreshToken has accepted
    roles,              \* the roles table: id -> row
    permissions,        \* the permissions table: id -> row
    userRoles,          \* user_roles: <<userId, roleId>> -> number of rows
    rolePermissions,    \* role_permissions: <<roleId, permissionId>> -> rows
    eagerLoad,          \* what the ORM does with an include of a model the
                        \* queried model declares no association to
    connection,         \* messageBroker's module-level connection: "null",
                        \* or the state of the object it refers to
    listener,           \* connection.on('error') is registered on that object
    setup,              \* setupMessageBroker: "start" before startServer
                        \* calls it, the await it is suspended at, or "idle"
    closer,             \* closeMessageBroker: the await it is suspended at
    timers,             \* pending setTimeout(setupMessageBroker): remaining
                        \* delay -> number of timers
    broker,             \* the RabbitMQ server: "up" / "down"
    bindings,           \* the routing patterns bound to the service's queue
    consumer,           \* a consumer is registered on the channel
    process,            \* the node process: "running" / "exited"
    stopped,            \* history: closeMessageBroker has been called
    reconnected,        \* history: amqp.connect was called after that
    settled,            \* history: what handleMessage did with the last message
    published,          \* history: the last publishMessage outside a request
    leaked,             \* a connection the module no longer refers to is open
    stale,              \* a consumer is registered on a channel the module
                        \* no longer refers to
    channels,           \* history: how many channels createChannel has given
                        \* (MaxChannels: that many or more)
    deliveredOn,        \* history: the consumer the last message came from
                        \* and the number of the module's channel then
    unacked             \* the message the queue holds for redelivery

iam == <<roles, permissions, userRoles, rolePermissions, eagerLoad>>

mq == <<connection, listener, setup, closer, timers, broker, bindings,
        consumer, process, stopped, reconnected, settled, published,
        leaked, stale, channels, deliveredOn, unacked>>

vars == <<users, verificationCodes, bot, channel, now, slots, tokens,
          nreq, hist, used, iam, mq>>

IdleSlot ==
    [kind |-> "idle", pc |-> "idle", tid |-> "-", code |-> "-",
     seen |-> NoCode, at |-> -1, h |-> NoHist, user |-> "-", active |-> FALSE, ts |-> -1,
     hdr |-> "-", token |-> NoToken, key |-> "-", again |-> FALSE,
     pair |-> NoPair, res |-> NoRes, event |-> NoEvent,
     call |-> NoCall, rows |-> {}, rps |-> {}, reach |-> {},
     ids |-> <<>>, i |-> 0, n |-> 0]

\* ----------------------------------------------------------------- the store
Exists(u) == users[u].telegramId # "-"

\* User.findOne({ where: { telegramId } })
FindByTelegramId(tid) == {u \in UserIds : users[u].telegramId = tid}

\* (variant: the lookup does not ask for isActive)
FindActiveByTelegramIdAny(tid) == {u \in UserIds : users[u].telegramId = tid}

\* User.findOne({ where: { telegramId, isActive: true } })
FindActiveByTelegramId(tid) ==
    {u \in UserIds : users[u].telegramId = tid /\ users[u].isActive}

\* User.findOne({ where: { id, isActive: true } })
FindActiveById(id) ==
    {u \in UserIds : u = id /\ Exists(u) /\ users[u].isActive}

\* uuidv4(): an id no row has
FreshIds == {u \in UserIds : ~Exists(u)}

\* ---------------------------------------------------------------- the broker
PublishOutcomes == {"ok", "full", "throw"}

\* (variant: only a full write buffer is reported as a failure)
publishMessageBlind(ch, out) == out # "full"

\* publishMessage: false without a channel, else what channel.publish gives
publishMessage(ch, out) ==
    IF ch = "null" THEN FALSE
    ELSE IF out = "throw" THEN FALSE
    ELSE out = "ok"

Event(k, ch, out) == [key |-> k, delivered |-> publishMessage(ch, out)]

\* ----------------------------------------------------------------- the tokens
\* jwt.sign(payload, secret, { expiresIn }): exp = iat + expiresIn
generateToken(userId, t) ==
    [token |-> [id |-> userId, type |-> "absent",
                exp |-> t + JwtExpiresIn, sig |-> AuthSecret],
     refreshToken |-> [id |-> userId, type |-> "refresh",
                       exp |-> t + JwtRefreshExpiresIn, sig |-> AuthSecret]]

\* (variant: an expired token is reported as any other invalid token)
jwtVerifyFlat(tok, secret, t) ==
    IF tok.sig # secret \/ t >= tok.exp THEN "JsonWebTokenError"
    ELSE "ok"

\* jwt.verify(token, secret): structure and signature first, then expiry
jwtVerify(tok, secret, t) ==
    IF tok.sig # secret THEN "JsonWebTokenError"
    ELSE IF t >= tok.exp THEN "TokenExpiredError"
    ELSE "ok"

\* --------------------------------------------------------------- the 2FA map
\* (variant: the comparison with the submitted code is missing)
CheckCodeNoCompare(entry, code, t) ==
    IF entry = NoCode THEN "none"
    ELSE IF t > entry.expires THEN "expired"
    ELSE "ok"

\* the three checks verify2FA makes on the entry it read
CheckCode(entry, code, t) ==
    IF entry = NoCode THEN "none"
    ELSE IF t > entry.expires THEN "expired"
    ELSE IF entry.code # code THEN "mismatch"
    ELSE "ok"

\* The users table is persistent: the service can start on any table the
\* unique index allows.  Ids were given out in order by earlier registers.
Row(tid) == [telegramId |-> tid, isActive |-> TRUE, lastLogin |-> -1]

InitialTables ==
    { [u \in UserIds |-> NoUser],
      [u \in UserIds |-> IF u = "u1" THEN Row("t1") ELSE NoUser],
      [u \in UserIds |-> IF u = "u1" THEN Row("t1") ELSE Row("t2")] }

\* (variant: a mismatch consumes the entry as well)
AfterCheckBurn(o, tid) ==
    IF o \in {"expired", "mismatch"}
    THEN [verificationCodes EXCEPT ![tid] = NoCode]
    ELSE verificationCodes

\* (variant: the expired branch answers without deleting)
AfterCheckKeep(o, tid) == verificationCodes

\* the map after the checks: only the expired branch deletes
AfterCheck(o, tid) ==
    IF o = "expired"
    THEN [verificationCodes EXCEPT ![tid] = NoCode]
    ELSE verificationCodes

\* (variant: the entry stays after a successful verification)
AfterSuccessKeep(tid) == verificationCodes

\* the map after a successful verification: delete verificationCodes[tid]
AfterSuccess(tid) == [verificationCodes EXCEPT ![tid] = NoCode]

\* The IAM tables are persistent as well.  The two roles and the two
\* permissions exist; the service starts without grants, with u2 an admin,
\* or with u1 a viewer as well, and with or without users:update granted to
\* viewer.
InitialRoles ==
    [x \in RoleIds |-> IF x = "r1" THEN [name |-> "admin"]
                       ELSE [name |-> "viewer"]]

InitialPermissions ==
    [x \in PermissionIds |->
        IF x = "p1" THEN [resource |-> "users", action |-> "update"]
        ELSE [resource |-> "users", action |-> "read"]]

Rows(pairs, S) == [k \in pairs |-> IF k \in S THEN 1 ELSE 0]

InitialUserRoles ==
    { Rows(UserIds \X RoleIds, {}),
      Rows(UserIds \X RoleIds, {<<"u2", "r1">>}),
      Rows(UserIds \X RoleIds, {<<"u1", "r2">>, <<"u2", "r1">>}) }

InitialRolePermissions ==
    { Rows(RoleIds \X PermissionIds, {}),
      Rows(RoleIds \X PermissionIds, {<<"r2", "p1">>}) }

\* models/index.ts declares the four belongsToMany associations and none
\* from UserRole to Role or from RolePermission to Permission, which is
\* what the includes with as: 'role' and as: 'permission' name.  Sequelize
\* rejects such an include with an EagerLoadingError; the other value
\* stands for an ORM build that resolves it through the foreign key.
EagerLoads == {"rejects", "resolves"}

Init ==
    /\ users \in InitialTables
    /\ verificationCodes = [t \in TelegramIds |-> NoCode]
    /\ bot \in BOOLEAN
    /\ channel = "null"
    /\ now = 0
    /\ slots = [r \in Slots |-> IdleSlot]
    /\ tokens = {}
    /\ nreq = 0
    /\ hist = [t \in TelegramIds |->
                [issued |-> NoCode, wrong |-> 0, consumed |-> "no"]]
    /\ used = {}
    /\ roles = InitialRoles
    /\ permissions = InitialPermissions
    /\ userRoles \in InitialUserRoles
    /\ rolePermissions \in InitialRolePermissions
    /\ eagerLoad \in EagerLoads
    /\ connection = "null"
    /\ listener = FALSE
    /\ setup = "start"
    /\ closer = "idle"
    /\ timers = [d \in 0..ReconnectDelay |-> 0]
    /\ broker = "down"
    /\ bindings = {}
    /\ consumer = FALSE
    /\ process = "running"
    /\ stopped = FALSE
    /\ reconnected = FALSE
    /\ settled = NoSettlement
    /\ published = NoPublish
    /\ leaked = FALSE
    /\ stale = FALSE
    /\ channels = 0
    /\ deliveredOn = NoDelivery
    /\ unacked = "-"

\* login, verify2FA and the token checks read none of the IAM tables: one
\* state of them stands for all
NoGrants ==
    /\ userRoles = Rows(UserIds \X RoleIds, {})
    /\ rolePermissions = Rows(RoleIds \X PermissionIds, {})
    /\ eagerLoad = "rejects"

\* a slot takes a new request when it is empty or its answer was sent
Free(r) == slots[r].pc \in {"idle", "done"}

\* every accepted request is counted; the specifications stop accepting
\* at their bound
Accept == nreq' = nreq + 1

Done(s, status, message) ==
    [s EXCEPT !.pc = "done", !.res = Res(status, message)]

\* (variant: a publish that did not deliver fails the request)
EmitOrFail(s, k, out) ==
    IF publishMessage(channel, out)
    THEN [s EXCEPT !.event = Event(k, channel, out)]
    ELSE [Done(s, 500, "Error publishing message") EXCEPT
            !.event = Event(k, channel, out)]

\* await publishMessage(k, ...) on the way to the answer s: the handlers do
\* not read what it returns
Emit(s, k, out) == [s EXCEPT !.event = Event(k, channel, out)]

\* ------------------------------------------------------------------ register
\* (variant: register goes to User.create without looking the id up)
RegisterFindBlind(r, tid) ==
    /\ Free(r)
    /\ Accept
    /\ slots' = [slots EXCEPT ![r] =
            [IdleSlot EXCEPT !.kind = "register", !.tid = tid,
                             !.pc = "create"]]
    /\ UNCHANGED <<mq, iam, users, verificationCodes, bot, channel, now, tokens,
                   hist, used>>

\* register up to the answer of the first findOne
RegisterFind(r, tid) ==
    /\ Free(r)
    /\ Accept
    /\ LET s == [IdleSlot EXCEPT !.kind = "register", !.tid = tid] IN
       slots' = [slots EXCEPT ![r] =
            IF FindByTelegramId(tid) # {}
            THEN Done(s, 409, "User with this Telegram ID already exists")
            ELSE [s EXCEPT !.pc = "create"]]
    /\ UNCHANGED <<mq, iam, users, verificationCodes, bot, channel, now, tokens,
                   hist, used>>

\* User.create (the unique index on telegramId can refuse it), the
\* user.created event, the best-effort welcome message and the 201 answer
RegisterCreate(r, out) ==
    /\ slots[r].kind = "register" /\ slots[r].pc = "create"
    /\ LET s == slots[r] IN
       IF FindByTelegramId(s.tid) # {}
       THEN /\ slots' = [slots EXCEPT ![r] = Done(s, 500, "Validation error")]
            /\ users' = users
       ELSE LET u == CHOOSE x \in FreshIds : TRUE IN
            /\ users' = [users EXCEPT ![u] =
                    [telegramId |-> s.tid, isActive |-> TRUE, lastLogin |-> -1]]
            /\ slots' = [slots EXCEPT ![r] =
                    Emit([Done(s, 201, "success") EXCEPT !.user = u],
                         "user.created", out)]
    /\ UNCHANGED <<mq, iam, verificationCodes, bot, channel, now, tokens,
                   nreq, hist, used>>

\* --------------------------------------------------------------------- login
\* (variant: an entry that is present is not replaced)
StoreCodeIfAbsent(tid, e) ==
    IF verificationCodes[tid] # NoCode THEN verificationCodes
    ELSE [verificationCodes EXCEPT ![tid] = e]

\* verificationCodes[telegramId] = { code, expires }
StoreCode(tid, e) == [verificationCodes EXCEPT ![tid] = e]

\* login up to the await on bot.telegram.sendMessage
LoginFind(r, tid, c) ==
    /\ Free(r)
    /\ Accept
    /\ LET s == [IdleSlot EXCEPT !.kind = "login", !.tid = tid] IN
       IF FindActiveByTelegramId(tid) = {}
       THEN /\ slots' = [slots EXCEPT ![r] =
                    Done(s, 404, "User not found or inactive")]
            /\ UNCHANGED <<verificationCodes, hist>>
       ELSE LET u == CHOOSE x \in FindActiveByTelegramId(tid) : TRUE
                e == [code |-> c, expires |-> now + CodeExpiresIn,
                      iss |-> nreq + 1, tid |-> tid]
                s1 == [s EXCEPT !.user = u, !.code = c, !.seen = e] IN
            /\ verificationCodes' = StoreCode(tid, e)
            /\ hist' = [hist EXCEPT ![tid] =
                    [issued |-> e, wrong |-> 0, consumed |-> "no"]]
            /\ slots' = [slots EXCEPT ![r] =
                    IF bot THEN [s1 EXCEPT !.pc = "send"]
                    ELSE Done(s1, 503, "Telegram bot service unavailable")]
    /\ UNCHANGED <<mq, iam, users, bot, channel, now, tokens, used>>

\* the sendMessage promise settles; on success the auth.login_attempt
\* event and the 200 answer
LoginSend(r, sent, out) ==
    /\ slots[r].kind = "login" /\ slots[r].pc = "send"
    /\ slots' = [slots EXCEPT ![r] =
            IF sent
            THEN Emit(Done(slots[r], 200,
                           "Verification code sent to your Telegram account"),
                      "auth.login_attempt", out)
            ELSE Done(slots[r], 500, "Failed to send verification code")]
    /\ UNCHANGED <<mq, iam, users, verificationCodes, bot, channel, now, tokens,
                   nreq, hist, used>>

\* ----------------------------------------------------------------- verify2FA
\* verify2FA up to the await on User.findOne
VerifyCheck(r, tid, c) ==
    /\ Free(r)
    /\ Accept
    /\ LET e == verificationCodes[tid]
           o == CheckCode(e, c, now)
           s == [IdleSlot EXCEPT !.kind = "verify", !.tid = tid, !.code = c,
                                 !.seen = e, !.at = now,
                                 !.h = hist[tid]] IN
       /\ slots' = [slots EXCEPT ![r] =
            CASE o = "none" ->
                    Done(s, 400,
                         "No verification code found. Please request a new one")
              [] o = "expired" ->
                    Done(s, 400,
                         "Verification code expired. Please request a new one")
              [] o = "mismatch" -> Done(s, 400, "Invalid verification code")
              [] OTHER -> [s EXCEPT !.pc = "findUser"]]
       /\ verificationCodes' = AfterCheck(o, tid)
       /\ hist' =
            CASE o = "expired" -> [hist EXCEPT ![tid].consumed = "expired"]
              [] o = "mismatch" -> [hist EXCEPT ![tid].wrong = @ + 1]
              [] OTHER -> hist
    /\ UNCHANGED <<mq, iam, users, bot, channel, now, tokens, used>>

\* findOne answers; generateToken; user.update is started
VerifyFind(r) ==
    /\ slots[r].kind = "verify" /\ slots[r].pc = "findUser"
    /\ LET s == slots[r]
           found == FindActiveByTelegramId(s.tid) IN
       slots' = [slots EXCEPT ![r] =
            IF found = {}
            THEN Done(s, 404, "User not found or inactive")
            ELSE LET u == CHOOSE x \in found : TRUE IN
                 [s EXCEPT !.pc = "update", !.user = u, !.active = TRUE,
                           !.ts = now, !.pair = generateToken(u, now)]]
    /\ UNCHANGED <<mq, iam, users, verificationCodes, bot, channel, now, tokens,
                   nreq, hist, used>>

\* the update commits; the entry is deleted; auth.login_success; 200 answer
VerifyUpdate(r, out) ==
    /\ slots[r].kind = "verify" /\ slots[r].pc = "update"
    /\ LET s == slots[r] IN
       /\ users' = [users EXCEPT ![s.user].lastLogin = s.ts]
       /\ verificationCodes' = AfterSuccess(s.tid)
       /\ hist' = [hist EXCEPT ![s.tid].consumed = "verified"]
       /\ tokens' = tokens \cup {s.pair.token, s.pair.refreshToken}
       /\ slots' = [slots EXCEPT ![r] =
            Emit(Done(s, 200, "success"), "auth.login_success", out)]
    /\ UNCHANGED <<mq, iam, bot, channel, now, nreq, used>>

\* ------------------------------------------------------------ user controller
\* deactivateUser: findOne by id, update isActive=false, user.deactivated
DeactivateUser(r, id, out) ==
    /\ Free(r)
    /\ Accept
    /\ LET s == [IdleSlot EXCEPT !.kind = "deactivate", !.user = id] IN
       IF ~Exists(id)
       THEN /\ slots' = [slots EXCEPT ![r] = Done(s, 404, "User not found")]
            /\ users' = users
       ELSE /\ users' = [users EXCEPT ![id].isActive = FALSE]
            /\ slots' = [slots EXCEPT ![r] =
                    Emit(Done(s, 200, "User deactivated successfully"),
                         "user.deactivated", out)]
    /\ UNCHANGED <<mq, iam, verificationCodes, bot, channel, now, tokens, hist, used>>

\* updateUser with an isActive field in the body (name and username are
\* payload only and are not modelled)
UpdateUser(r, id, isActive, out) ==
    /\ Free(r)
    /\ Accept
    /\ LET s == [IdleSlot EXCEPT !.kind = "update", !.user = id] IN
       IF ~Exists(id)
       THEN /\ slots' = [slots EXCEPT ![r] = Done(s, 404, "User not found")]
            /\ users' = users
       ELSE /\ users' = [users EXCEPT ![id].isActive = isActive]
            /\ slots' = [slots EXCEPT ![r] =
                    Emit(Done(s, 200, "success"), "user.updated", out)]
    /\ UNCHANGED <<mq, iam, verificationCodes, bot, channel, now, tokens, hist, used>>

\* ------------------------------------------------------------ token checking
\* what a client can put in the Authorization header or the request body:
\* a token it was given, or one jwt.verify rejects for structure or signature
Forged ==
    { [id |-> "u1", type |-> "absent", exp |-> 0, sig |-> "forged"],
      [id |-> "u1", type |-> "refresh", exp |-> 99, sig |-> "forged"] }

Presentable == tokens \cup Forged

Headers ==
    {[hdr |-> "none", token |-> NoToken], [hdr |-> "empty", token |-> NoToken]}
    \cup {[hdr |-> "bearer", token |-> t] : t \in Presentable}

Next_(u) == [status |-> 0, message |-> "next", user |-> u]
Fail(status, message) == [status |-> status, message |-> message, user |-> "-"]

\* (variant: the middleware verifies with another secret than
\* generateToken signs with)
authenticateOtherSecret(h, t) ==
    IF h.hdr = "none" THEN Fail(401, "No authentication token provided")
    ELSE IF h.hdr = "empty"
    THEN Fail(401, "Invalid authentication token format")
    ELSE LET v == jwtVerify(h.token, "other", t) IN
         IF v = "TokenExpiredError" THEN Fail(401, "Token expired")
         ELSE IF v = "JsonWebTokenError" THEN Fail(401, "Invalid token")
         ELSE IF FindActiveById(h.token.id) = {}
         THEN Fail(401, "User not found or inactive")
         ELSE Next_(h.token.id)

\* the authenticate middleware of the auth-service
authenticate(h, t) ==
    IF h.hdr = "none" THEN Fail(401, "No authentication token provided")
    ELSE IF h.hdr = "empty"
    THEN Fail(401, "Invalid authentication token format")
    ELSE LET v == jwtVerify(h.token, AuthSecret, t) IN
         IF v = "TokenExpiredError" THEN Fail(401, "Token expired")
         ELSE IF v = "JsonWebTokenError" THEN Fail(401, "Invalid token")
         ELSE IF FindActiveById(h.token.id) = {}
         THEN Fail(401, "User not found or inactive")
         ELSE Next_(h.token.id)

\* GET /api/users/me on the auth-service: router.use(authenticate), then the
\* routes in the order userRoutes registers them.  '/:id' is registered
\* before '/me', so the path 'me' is taken as an id, param('id').isUUID()
\* fails and validateRequest throws 400.
usersMe(h, t) ==
    LET a == authenticate(h, t) IN
    IF a.message # "next" THEN a
    ELSE Fail(400, "Validation Error")

\* the authMiddleware of the api-gateway
authMiddleware(h, key, net, t) ==
    IF h.hdr = "none" THEN Fail(401, "Authentication required")
    ELSE IF h.hdr = "empty"
    THEN Fail(401, "Invalid authentication token format")
    ELSE IF key = "unset"
    THEN Fail(500, "Authentication service configuration error")
    ELSE LET v == jwtVerify(h.token, key, t) IN
         IF v = "TokenExpiredError" THEN Fail(401, "Token expired")
         ELSE IF v = "JsonWebTokenError" THEN Fail(401, "Invalid token")
         ELSE IF h.token.type = "refresh" THEN Fail(401, "Invalid token type")
         ELSE IF net = "down"
         THEN Fail(503, "Authentication service unavailable")
         ELSE LET a == usersMe(h, t) IN
              IF a.status = 200 THEN Next_(a.user)
              ELSE Fail(a.status, a.message)

\* (variant: the class tag is not looked at)
refreshCheckAnyClass(tok, t) ==
    LET v == jwtVerify(tok, AuthSecret, t) IN
    IF v = "TokenExpiredError" THEN Fail(401, "Refresh token expired")
    ELSE IF v = "JsonWebTokenError" THEN Fail(401, "Invalid refresh token")
    ELSE IF FindActiveById(tok.id) = {}
    THEN Fail(401, "User not found or inactive")
    ELSE Next_(tok.id)

\* the checks of refreshToken before it issues
refreshCheck(tok, t) ==
    LET v == jwtVerify(tok, AuthSecret, t) IN
    IF v = "TokenExpiredError" THEN Fail(401, "Refresh token expired")
    ELSE IF v = "JsonWebTokenError" THEN Fail(401, "Invalid refresh token")
    ELSE IF tok.type # "refresh" THEN Fail(400, "Invalid refresh token")
    ELSE IF FindActiveById(tok.id) = {}
    THEN Fail(401, "User not found or inactive")
    ELSE Next_(tok.id)

Answer(s, a) == [Done(s, a.status, a.message) EXCEPT !.user = a.user]

\* a request to a route guarded by authenticate, up to next()
Authenticate(r, h) ==
    /\ Free(r)
    /\ Accept
    /\ slots' = [slots EXCEPT ![r] =
            Answer([IdleSlot EXCEPT !.kind = "authenticate", !.hdr = h.hdr,
                                    !.token = h.token, !.at = now],
                   authenticate(h, now))]
    /\ UNCHANGED <<mq, iam, users, verificationCodes, bot, channel, now, tokens, hist, used>>

\* a request to a gateway route guarded by authMiddleware, up to next()
GatewayAuth(r, h, key, net) ==
    /\ Free(r)
    /\ Accept
    /\ slots' = [slots EXCEPT ![r] =
            Answer([IdleSlot EXCEPT !.kind = "gateway", !.hdr = h.hdr,
                                    !.token = h.token, !.key = key,
                                    !.at = now],
                   authMiddleware(h, key, net, now))]
    /\ UNCHANGED <<mq, iam, users, verificationCodes, bot, channel, now, tokens, hist, used>>

\* (variant: rotation with revocation, a refresh token is accepted once)
RefreshTokenOnce(r, tok) ==
    /\ Free(r)
    /\ Accept
    /\ LET a == IF tok \in used THEN Fail(401, "Invalid refresh token")
                ELSE refreshCheck(tok, now)
           s == [IdleSlot EXCEPT !.kind = "refresh", !.hdr = "body",
                                 !.token = tok, !.at = now,
                                 !.again = (tok \in used)] IN
       IF a.message # "next"
       THEN /\ slots' = [slots EXCEPT ![r] = Answer(s, a)]
            /\ UNCHANGED <<tokens, used>>
       ELSE LET p == generateToken(a.user, now) IN
            /\ slots' = [slots EXCEPT ![r] =
                    [Done(s, 200, "success") EXCEPT !.user = a.user,
                                                    !.pair = p]]
            /\ tokens' = tokens \cup {p.token, p.refreshToken}
            /\ used' = used \cup {tok}
    /\ UNCHANGED <<mq, iam, users, verificationCodes, bot, channel, now, hist>>

\* POST /api/auth/refresh-token
RefreshToken(r, tok) ==
    /\ Free(r)
    /\ Accept
    /\ LET a == refreshCheck(tok, now)
           s == [IdleSlot EXCEPT !.kind = "refresh", !.hdr = "body",
                                 !.token = tok, !.at = now,
                                 !.again = (tok \in used)] IN
       IF a.message # "next"
       THEN /\ slots' = [slots EXCEPT ![r] = Answer(s, a)]
            /\ UNCHANGED <<tokens, used>>
       ELSE LET p == generateToken(a.user, now) IN
            /\ slots' = [slots EXCEPT ![r] =
                    [Done(s, 200, "success") EXCEPT !.user = a.user,
                                                    !.pair = p]]
            /\ tokens' = tokens \cup {p.token, p.refreshToken}
            /\ used' = used \cup {tok}
    /\ UNCHANGED <<mq, iam, users, verificationCodes, bot, channel, now, hist>>

\* (variant: logout ends the session on the server by switching the user off)
LogoutRevoking(r, h, out) ==
    /\ Free(r)
    /\ Accept
    /\ LET a == authenticate(h, now)
           s == [IdleSlot EXCEPT !.kind = "logout", !.hdr = h.hdr,
                                 !.token = h.token, !.at = now] IN
       IF a.message # "next"
       THEN /\ slots' = [slots EXCEPT ![r] = Answer(s, a)]
            /\ users' = users
       ELSE /\ slots' = [slots EXCEPT ![r] =
                    Emit([Done(s, 200, "Logged out successfully") EXCEPT
                                !.user = a.user],
                         "auth.logout", out)]
            /\ users' = [users EXCEPT ![a.user].isActive = FALSE]
    /\ UNCHANGED <<mq, iam, verificationCodes, bot, channel, now, tokens, hist, used>>

\* POST /api/auth/logout: authenticate, then the auth.logout event
Logout(r, h, out) ==
    /\ Free(r)
    /\ Accept
    /\ LET a == authenticate(h, now)
           s == [IdleSlot EXCEPT !.kind = "logout", !.hdr = h.hdr,
                                 !.token = h.token, !.at = now] IN
       slots' = [slots EXCEPT ![r] =
            IF a.message # "next" THEN Answer(s, a)
            ELSE Emit([Done(s, 200, "Logged out successfully") EXCEPT
                            !.user = a.user],
                      "auth.logout", out)]
    /\ UNCHANGED <<mq, iam, users, verificationCodes, bot, channel, now, tokens, hist, used>>

\* ------------------------------------------------------------- authorization
Methods == {"GET", "POST", "PUT", "PATCH", "DELETE", "OPTIONS"}

\* req.baseUrl.split('/') for the two routers authorize is used in
UsersBase == <<"", "api", "users">>
IamBase == <<"", "api", "iam">>

Call(m, b, rr, self, id) ==
    [method |-> m, baseUrl |-> b, requiredRoles |-> rr, allowSelf |-> self,
     id |-> id]

\* the routes of userRoutes that go through authorize; req.params.id is
\* "-" where the path has no :id
userRoutes ==
    {Call("GET", UsersBase, {"admin", "manager"}, FALSE, "-")}
    \cup {Call("GET", UsersBase, {"admin", "manager"}, TRUE, id) : id \in UserIds}
    \cup {Call("PUT", UsersBase, {"admin"}, TRUE, id) : id \in UserIds}
    \cup {Call("DELETE", UsersBase, {"admin"}, FALSE, id) : id \in UserIds}

\* iamRoutes: router.use(authorize(['admin'])) in front of every path and verb
iamRoutes == {Call(m, IamBase, {"admin"}, FALSE, "-") : m \in Methods}

\* authorize() with its default arguments
defaultRoutes == {Call(m, UsersBase, {}, FALSE, "-") : m \in {"GET", "POST"}}

Calls == userRoutes \cup iamRoutes \cup defaultRoutes

\* req.user as authenticate left it ("-": authorize used without it, where
\* the answer does not depend on the route: one route stands for all)
Requests ==
    (Calls \X UserIds)
    \cup {<<Call("GET", UsersBase, {"admin", "manager"}, FALSE, "-"), "-">>}

getActionFromMethod(method) ==
    CASE method = "GET" -> "read"
      [] method = "POST" -> "create"
      [] method \in {"PUT", "PATCH"} -> "update"
      [] method = "DELETE" -> "delete"
      [] OTHER -> "read"

\* req.baseUrl.split('/').pop() || ''
resource(baseUrl) == IF Len(baseUrl) = 0 THEN "" ELSE baseUrl[Len(baseUrl)]

\* UserRole.findAll({ where: { userId }, include: Role as 'role' })
findUserRoles(ur, u) ==
    {[roleId |-> x, name |-> roles[x].name] :
        x \in {y \in RoleIds : ur[<<u, y>>] > 0}}

\* RolePermission.findAll({ where: { roleId: roleIds }, include: Permission })
findRolePermissions(rp, roleIds) ==
    {[roleId |-> k[1], permission |-> permissions[k[2]]] :
        k \in {j \in RoleIds \X PermissionIds : j[1] \in roleIds /\ rp[j] > 0}}

ToPermissions(u) == [status |-> 0, message |-> "permissions", user |-> u]

\* (variant: the owner of the resource passes whatever the route declares)
authorizeRolesSelfAlways(call, u, rows, eager) ==
    IF u = "-" THEN Fail(401, "Unauthorized: Authentication required")
    ELSE IF call.id # "-" /\ call.id = u THEN Next_(u)
    ELSE IF eager = "rejects"
    THEN Fail(500, "Role is not associated to UserRole!")
    ELSE IF call.requiredRoles = {} THEN Next_(u)
    ELSE IF \E row \in rows : row.name \in call.requiredRoles THEN Next_(u)
    ELSE ToPermissions(u)

\* (variant: every role of the principal has to be a required one)
authorizeRolesEvery(call, u, rows, eager) ==
    IF u = "-" THEN Fail(401, "Unauthorized: Authentication required")
    ELSE IF call.allowSelf /\ call.id # "-" /\ call.id = u THEN Next_(u)
    ELSE IF eager = "rejects"
    THEN Fail(500, "Role is not associated to UserRole!")
    ELSE IF call.requiredRoles = {} THEN Next_(u)
    ELSE IF rows # {} /\ \A row \in rows : row.name \in call.requiredRoles
    THEN Next_(u)
    ELSE ToPermissions(u)

\* authorize up to its second query: req.user, self access, the roles of
\* the principal (rows is what UserRole.findAll answers when the include
\* resolves), requiredRoles
authorizeRoles(call, u, rows, eager) ==
    IF u = "-" THEN Fail(401, "Unauthorized: Authentication required")
    ELSE IF call.allowSelf /\ call.id # "-" /\ call.id = u THEN Next_(u)
    ELSE IF eager = "rejects"
    THEN Fail(500, "Role is not associated to UserRole!")
    ELSE IF call.requiredRoles = {} THEN Next_(u)
    ELSE IF \E row \in rows : row.name \in call.requiredRoles THEN Next_(u)
    ELSE ToPermissions(u)

\* authorize from its second query: the permissions of those roles
authorizePermissions(call, u, rps, eager) ==
    IF eager = "rejects"
    THEN Fail(500, "Permission is not associated to RolePermission!")
    ELSE IF \E rp \in rps :
                /\ rp.permission.resource = resource(call.baseUrl)
                /\ rp.permission.action = getActionFromMethod(call.method)
    THEN Next_(u)
    ELSE Fail(403, "Forbidden: Insufficient permissions")

\* the whole middleware on one state of the two association tables
authorize(call, u, ur, rp) ==
    LET rows == IF u = "-" THEN {} ELSE findUserRoles(ur, u)
        a == authorizeRoles(call, u, rows, eagerLoad) IN
    IF a.message # "permissions" THEN a
    ELSE authorizePermissions(call, u,
            findRolePermissions(rp, {row.roleId : row \in rows}), eagerLoad)

\* history: the permissions the principal reaches through its roles when
\* its request arrives
Reachable(u) ==
    IF u = "-" THEN {}
    ELSE {permissions[k[2]] :
            k \in {j \in RoleIds \X PermissionIds :
                        userRoles[<<u, j[1]>>] > 0 /\ rolePermissions[j] > 0}}

\* a request reaches authorize with req.user as authenticate left it; the
\* first query (rows is what it selects) and its answer
Authorize(r, call, u) ==
    /\ Free(r)
    /\ Accept
    /\ LET asked == u # "-" /\ ~(call.allowSelf /\ call.id = u)
           rows == IF asked THEN findUserRoles(userRoles, u) ELSE {}
           a == authorizeRoles(call, u, rows, eagerLoad)
           s == [IdleSlot EXCEPT !.kind = "authorize", !.call = call,
                                 !.user = u, !.rows = rows,
                                 !.reach = Reachable(u)] IN
       slots' = [slots EXCEPT ![r] =
            IF a.message = "permissions" THEN [s EXCEPT !.pc = "permissions"]
            ELSE Done(s, a.status, a.message)]
    /\ UNCHANGED <<mq, iam, users, verificationCodes, bot, channel, now, tokens,
                   hist, used>>

\* the answer of the second query and the decision
AuthorizePermissions(r) ==
    /\ slots[r].kind = "authorize" /\ slots[r].pc = "permissions"
    /\ LET s == slots[r]
           rps == findRolePermissions(rolePermissions,
                        {row.roleId : row \in s.rows})
           a == authorizePermissions(s.call, s.user, rps, eagerLoad) IN
       slots' = [slots EXCEPT ![r] =
            [Done(s, a.status, a.message) EXCEPT !.rps = rps]]
    /\ UNCHANGED <<mq, iam, users, verificationCodes, bot, channel, now, tokens,
                   nreq, hist, used>>

\* ------------------------------------------------------------ IAM controller
Range(q) == {q[j] : j \in 1..Len(q)}

\* findOne({ where: { <the pair> } }) on an association table
\* (variant: the association is never found)
existingNever(tbl, k) == FALSE

existing(tbl, k) == tbl[k] > 0

\* create on an association table.  The belongsToMany declarations give the
\* through table a unique index on the pair and a foreign key to each side.
create(tbl, k, parents) ==
    IF ~parents
    THEN [error |-> "SequelizeForeignKeyConstraintError", tbl |-> tbl]
    ELSE IF tbl[k] > 0
    THEN [error |-> "SequelizeUniqueConstraintError", tbl |-> tbl]
    ELSE [error |-> "-", tbl |-> [tbl EXCEPT ![k] = @ + 1]]

RoleExists(x) == roles[x] # NoRole
PermissionExists(x) == permissions[x] # NoPermission

\* the body lists: arrays of ids, repeats allowed
IdLists(S) == {<<>>} \cup {<<x>> : x \in S} \cup {<<x, y>> : x \in S, y \in S}

\* the loop has handled ids[i]: the next id, or the event and the answer
Advance(s, n, key, out) ==
    IF s.i < Len(s.ids) THEN [s EXCEPT !.pc = "check", !.i = @ + 1, !.n = n]
    ELSE Emit([Done(s, 200, "assigned") EXCEPT !.n = n], key, out)

\* (variant: the loop starts without the two existence checks)
AssignRolesFindUnchecked(r, userId, roleIds, out) ==
    /\ Free(r)
    /\ Accept
    /\ LET s == [IdleSlot EXCEPT !.kind = "assignRoles", !.user = userId,
                                 !.ids = roleIds] IN
       slots' = [slots EXCEPT ![r] =
            Advance(s, 0, "iam.user.roles.updated", out)]
    /\ UNCHANGED <<mq, iam, users, verificationCodes, bot, channel, now, tokens,
                   hist, used>>

\* assignRolesToUser up to the loop: User.findOne, Role.findAll
AssignRolesFind(r, userId, roleIds, out) ==
    /\ Free(r)
    /\ Accept
    /\ LET s == [IdleSlot EXCEPT !.kind = "assignRoles", !.user = userId,
                                 !.ids = roleIds]
           found == {x \in Range(roleIds) : RoleExists(x)} IN
       slots' = [slots EXCEPT ![r] =
            IF ~Exists(userId) THEN Done(s, 404, "User not found")
            ELSE IF Cardinality(found) # Len(roleIds)
            THEN Done(s, 404, "One or more roles not found")
            ELSE Advance(s, 0, "iam.user.roles.updated", out)]
    /\ UNCHANGED <<mq, iam, users, verificationCodes, bot, channel, now, tokens,
                   hist, used>>

\* UserRole.findOne for the id the loop is at
AssignRolesCheck(r, out) ==
    /\ slots[r].kind = "assignRoles" /\ slots[r].pc = "check"
    /\ LET s == slots[r] IN
       slots' = [slots EXCEPT ![r] =
            IF existing(userRoles, <<s.user, s.ids[s.i]>>)
            THEN Advance(s, s.n, "iam.user.roles.updated", out)
            ELSE [s EXCEPT !.pc = "create"]]
    /\ UNCHANGED <<mq, iam, users, verificationCodes, bot, channel, now, tokens,
                   nreq, hist, used>>

\* UserRole.create for that id
AssignRolesCreate(r, out) ==
    /\ slots[r].kind = "assignRoles" /\ slots[r].pc = "create"
    /\ LET s == slots[r]
           c == create(userRoles, <<s.user, s.ids[s.i]>>,
                       Exists(s.user) /\ RoleExists(s.ids[s.i])) IN
       /\ userRoles' = c.tbl
       /\ slots' = [slots EXCEPT ![r] =
            IF c.error # "-" THEN Done(s, 500, c.error)
            ELSE Advance(s, s.n + 1, "iam.user.roles.updated", out)]
    /\ UNCHANGED <<mq, roles, permissions, rolePermissions, eagerLoad, users,
                   verificationCodes, bot, channel, now, tokens, nreq, hist,
                   used>>

\* assignPermissionsToRole up to the loop: Role.findOne, Permission.findAll
AssignPermissionsFind(r, roleId, permissionIds, out) ==
    /\ Free(r)
    /\ Accept
    /\ LET s == [IdleSlot EXCEPT !.kind = "assignPermissions",
                                 !.key = roleId, !.ids = permissionIds]
           found == {x \in Range(permissionIds) : PermissionExists(x)} IN
       slots' = [slots EXCEPT ![r] =
            IF ~RoleExists(roleId) THEN Done(s, 404, "Role not found")
            ELSE IF Cardinality(found) # Len(permissionIds)
            THEN Done(s, 404, "One or more permissions not found")
            ELSE Advance(s, 0, "iam.role.permissions.updated", out)]
    /\ UNCHANGED <<mq, iam, users, verificationCodes, bot, channel, now, tokens,
                   hist, used>>

\* RolePermission.findOne for the id the loop is at
AssignPermissionsCheck(r, out) ==
    /\ slots[r].kind = "assignPermissions" /\ slots[r].pc = "check"
    /\ LET s == slots[r] IN
       slots' = [slots EXCEPT ![r] =
            IF existing(rolePermissions, <<s.key, s.ids[s.i]>>)
            THEN Advance(s, s.n, "iam.role.permissions.updated", out)
            ELSE [s EXCEPT !.pc = "create"]]
    /\ UNCHANGED <<mq, iam, users, verificationCodes, bot, channel, now, tokens,
                   nreq, hist, used>>

\* RolePermission.create for that id
AssignPermissionsCreate(r, out) ==
    /\ slots[r].kind = "assignPermissions" /\ slots[r].pc = "create"
    /\ LET s == slots[r]
           c == create(rolePermissions, <<s.key, s.ids[s.i]>>,
                       RoleExists(s.key) /\ PermissionExists(s.ids[s.i])) IN
       /\ rolePermissions' = c.tbl
       /\ slots' = [slots EXCEPT ![r] =
            IF c.error # "-" THEN Done(s, 500, c.error)
            ELSE Advance(s, s.n + 1, "iam.role.permissions.updated", out)]
    /\ UNCHANGED <<mq, roles, permissions, userRoles, eagerLoad, users,
                   verificationCodes, bot, channel, now, tokens, nreq, hist,
                   used>>

\* UserRole.count({ where: { roleId } })
userRoleCount(roleId) ==
    Cardinality({u \in UserIds : userRoles[<<u, roleId>>] > 0})

\* RolePermission.count({ where: { permissionId } })
rolePermissionCount(permissionId) ==
    Cardinality({x \in RoleIds : rolePermissions[<<x, permissionId>>] > 0})

\* (variant: the rows stay)
WithoutKeep(tbl, j, id) == tbl

\* (variant: destroy without its where clause)
WithoutAll(tbl, j, id) == [k \in DOMAIN tbl |-> 0]

\* the rows of an association table that name id on side j are removed
Without(tbl, j, id) == [k \in DOMAIN tbl |-> IF k[j] = id THEN 0 ELSE tbl[k]]

\* deleteRole: the answer to the count of the role's user_roles rows
roleGuard(n) ==
    IF n > 0 THEN "Cannot delete role that is still assigned to users"
    ELSE "destroy"

\* deletePermission: the answer to the count of its role_permissions rows
permissionGuard(n) ==
    IF n > 0 THEN "Cannot delete permission that is still assigned to roles"
    ELSE "destroy"

\* deleteRole up to the answer of Role.findOne
DeleteRoleFind(r, id) ==
    /\ Free(r)
    /\ Accept
    /\ LET s == [IdleSlot EXCEPT !.kind = "deleteRole", !.key = id] IN
       slots' = [slots EXCEPT ![r] =
            IF ~RoleExists(id) THEN Done(s, 404, "Role not found")
            ELSE [s EXCEPT !.pc = "count"]]
    /\ UNCHANGED <<mq, iam, users, verificationCodes, bot, channel, now, tokens,
                   hist, used>>

\* UserRole.count answers
DeleteRoleCount(r) ==
    /\ slots[r].kind = "deleteRole" /\ slots[r].pc = "count"
    /\ LET s == slots[r]
           g == roleGuard(userRoleCount(s.key)) IN
       slots' = [slots EXCEPT ![r] =
            IF g # "destroy" THEN Done(s, 400, g)
            ELSE [s EXCEPT !.pc = "destroyPermissions"]]
    /\ UNCHANGED <<mq, iam, users, verificationCodes, bot, channel, now, tokens,
                   nreq, hist, used>>

\* RolePermission.destroy({ where: { roleId } })
DeleteRolePermissions(r) ==
    /\ slots[r].kind = "deleteRole" /\ slots[r].pc = "destroyPermissions"
    /\ rolePermissions' = Without(rolePermissions, 1, slots[r].key)
    /\ slots' = [slots EXCEPT ![r].pc = "destroy"]
    /\ UNCHANGED <<mq, roles, permissions, userRoles, eagerLoad, users,
                   verificationCodes, bot, channel, now, tokens, nreq, hist,
                   used>>

\* role.destroy() (the foreign keys of both through tables cascade), the
\* iam.role.deleted event and the 200 answer
DeleteRoleDestroy(r, out) ==
    /\ slots[r].kind = "deleteRole" /\ slots[r].pc = "destroy"
    /\ LET s == slots[r] IN
       /\ roles' = [roles EXCEPT ![s.key] = NoRole]
       /\ userRoles' = Without(userRoles, 2, s.key)
       /\ rolePermissions' = Without(rolePermissions, 1, s.key)
       /\ slots' = [slots EXCEPT ![r] =
            Emit(Done(s, 200, "Role deleted successfully"),
                 "iam.role.deleted", out)]
    /\ UNCHANGED <<mq, permissions, eagerLoad, users, verificationCodes, bot,
                   channel, now, tokens, nreq, hist, used>>

\* deletePermission up to the answer of Permission.findOne
DeletePermissionFind(r, id) ==
    /\ Free(r)
    /\ Accept
    /\ LET s == [IdleSlot EXCEPT !.kind = "deletePermission", !.key = id] IN
       slots' = [slots EXCEPT ![r] =
            IF ~PermissionExists(id) THEN Done(s, 404, "Permission not found")
            ELSE [s EXCEPT !.pc = "count"]]
    /\ UNCHANGED <<mq, iam, users, verificationCodes, bot, channel, now, tokens,
                   hist, used>>

\* RolePermission.count answers
DeletePermissionCount(r) ==
    /\ slots[r].kind = "deletePermission" /\ slots[r].pc = "count"
    /\ LET s == slots[r]
           g == permissionGuard(rolePermissionCount(s.key)) IN
       slots' = [slots EXCEPT ![r] =
            IF g # "destroy" THEN Done(s, 400, g)
            ELSE [s EXCEPT !.pc = "destroy"]]
    /\ UNCHANGED <<mq, iam, users, verificationCodes, bot, channel, now, tokens,
                   nreq, hist, used>>

\* permission.destroy() (cascading), iam.permission.deleted, the 200 answer
DeletePermissionDestroy(r, out) ==
    /\ slots[r].kind = "deletePermission" /\ slots[r].pc = "destroy"
    /\ LET s == slots[r] IN
       /\ permissions' = [permissions EXCEPT ![s.key] = NoPermission]
       /\ rolePermissions' = Without(rolePermissions, 2, s.key)
       /\ slots' = [slots EXCEPT ![r] =
            Emit(Done(s, 200, "Permission deleted successfully"),
                 "iam.permission.deleted", out)]
    /\ UNCHANGED <<mq, roles, userRoles, eagerLoad, users, verificationCodes, bot,
                   channel, now, tokens, nreq, hist, used>>

\* ------------------------------------------------------- the message broker
\* EXCHANGE is asserted as a topic exchange, QUEUE as a durable queue
Patterns == {"user.#", "auth.#"}

\* what reaches handleMessage: the routing keys it knows, another one, a
\* body that is not JSON, and null (the server cancelled the consumer)
Messages == {"user.created", "user.updated", "auth.login", "other",
             "unparsable", "null"}

\* what channel.publish can do on the channel publishMessage finds: a closed
\* channel throws, an open one answers true or (write buffer full) false
Outcomes(ch) ==
    IF ch = "closed" THEN {"throw"}
    ELSE IF ch = "open" THEN {"ok", "full"}
    ELSE PublishOutcomes

\* channel?.ack(msg) / channel?.nack(msg, false, true) on the module's
\* channel: nothing without a channel, a throw on a closed one
Sends(ch) == IF ch = "open" THEN 1 ELSE 0

\* (variant: the message is acknowledged after the catch as well)
handleMessageAckAlways(msg, ch) ==
    IF msg = "null" THEN [NoSettlement EXCEPT !.msg = msg]
    ELSE IF msg = "unparsable"
    THEN [msg |-> msg, acks |-> Sends(ch), nacks |-> Sends(ch),
          requeue |-> ch = "open", rejected |-> ch = "closed"]
    ELSE [msg |-> msg, acks |-> Sends(ch), nacks |-> 0, requeue |-> FALSE,
          rejected |-> ch = "closed"]

\* handleMessage: JSON.parse, the switch on the routing key, the ack; the
\* catch nacks with requeue.  On a closed channel the ack throws into the
\* catch and the nack throws out of it: the promise rejects.
handleMessage(msg, ch) ==
    IF msg = "null" THEN [NoSettlement EXCEPT !.msg = msg]
    ELSE IF msg = "unparsable"
    THEN [msg |-> msg, acks |-> 0, nacks |-> Sends(ch),
          requeue |-> ch = "open", rejected |-> ch = "closed"]
    ELSE [msg |-> msg, acks |-> Sends(ch), nacks |-> 0, requeue |-> FALSE,
          rejected |-> ch = "closed"]

Running == process = "running"

Pending == \E d \in DOMAIN timers : timers[d] > 0

\* setTimeout(setupMessageBroker, 5000)
setTimeout(t) == [t EXCEPT ![ReconnectDelay] = @ + 1]

brokerRest == <<users, verificationCodes, bot, now, slots, tokens, nreq,
                hist, used, iam>>

\* the variables of the broker client that only setup and the consumer touch
mqRest == <<leaked, stale, channels, deliveredOn, unacked>>

\* setupMessageBroker is called, by startServer or by a timer that is due,
\* and runs up to the await on amqp.connect
SetupStart ==
    /\ Running
    /\ \/ setup = "start" /\ timers' = timers
       \/ /\ setup = "idle" /\ timers[0] > 0
          /\ timers' = [timers EXCEPT ![0] = @ - 1]
    /\ setup' = "connect"
    /\ reconnected' = (reconnected \/ (stopped /\ closer = "idle"))
    /\ UNCHANGED <<connection, channel, listener, closer, broker, bindings,
                   consumer, process, stopped, settled, published, mqRest,
                   brokerRest>>

\* the catch of setupMessageBroker: the retry is scheduled
SetupCatch ==
    /\ setup' = "idle"
    /\ timers' = setTimeout(timers)

\* amqp.connect settles; the module's connection is assigned, and the
\* object it referred to before is not closed
SetupConnect ==
    /\ Running /\ setup = "connect"
    /\ IF broker = "up"
       THEN /\ connection' = "open" /\ listener' = FALSE
            /\ leaked' = (leaked \/ connection = "open")
            /\ setup' = "createChannel"
            /\ timers' = timers
       ELSE /\ SetupCatch
            /\ UNCHANGED <<connection, listener, leaked>>
    /\ UNCHANGED <<channel, closer, broker, bindings, consumer, process,
                   stopped, reconnected, settled, published, stale, channels,
                   deliveredOn, unacked, brokerRest>>

\* connection.createChannel settles (ok: the server grants the channel);
\* the module's channel is assigned, and a consumer of the channel it
\* referred to before stays registered there
SetupChannel(ok) ==
    /\ Running /\ setup = "createChannel"
    /\ IF connection = "open" /\ ok
       THEN /\ channel' = "open" /\ consumer' = FALSE
            /\ stale' = (stale \/ consumer)
            /\ channels' = IF channels < MaxChannels THEN channels + 1
                           ELSE channels
            /\ setup' = "assertExchange"
            /\ timers' = timers
       ELSE /\ SetupCatch
            /\ UNCHANGED <<channel, consumer, stale, channels>>
    /\ UNCHANGED <<connection, listener, closer, broker, bindings, process,
                   stopped, reconnected, settled, published, leaked,
                   deliveredOn, unacked, brokerRest>>

\* assertExchange, assertQueue and the two bindQueue calls settle, one by
\* one (ok: the server accepts the method; when it refuses, it closes the
\* channel and the connection stays)
SetupDeclare(ok) ==
    /\ Running
    /\ setup \in {"assertExchange", "assertQueue", "bindUser", "bindAuth"}
    /\ IF channel = "open" /\ ok
       THEN /\ setup' = (CASE setup = "assertExchange" -> "assertQueue"
                           [] setup = "assertQueue" -> "bindUser"
                           [] setup = "bindUser" -> "bindAuth"
                           [] OTHER -> "consume")
            /\ bindings' = (CASE setup = "bindUser" -> bindings \cup {"user.#"}
                              [] setup = "bindAuth" -> bindings \cup {"auth.#"}
                              [] OTHER -> bindings)
            /\ timers' = timers
            /\ channel' = channel
       ELSE /\ SetupCatch
            /\ bindings' = bindings
            /\ channel' = IF channel = "open" THEN "closed" ELSE channel
    /\ UNCHANGED <<connection, listener, closer, broker, consumer,
                   process, stopped, reconnected, settled, published, mqRest,
                   brokerRest>>

\* channel.consume settles; connection.on('error') is registered and
\* setupMessageBroker returns
SetupConsume(ok) ==
    /\ Running /\ setup = "consume"
    /\ IF channel = "open" /\ ok
       THEN /\ consumer' = TRUE /\ listener' = TRUE
            /\ setup' = "idle"
            /\ timers' = timers
            /\ channel' = channel
       ELSE /\ SetupCatch
            /\ UNCHANGED <<consumer, listener>>
            /\ channel' = IF channel = "open" THEN "closed" ELSE channel
    /\ UNCHANGED <<connection, closer, broker, bindings, process,
                   stopped, reconnected, settled, published, mqRest,
                   brokerRest>>

\* (variant: the connection emits 'error' and stays open)
ConnectionLostOpen(kind) ==
    /\ Running /\ connection = "open"
    /\ kind = "error" /\ listener
    /\ timers' = setTimeout(timers)
    /\ UNCHANGED <<connection, channel, consumer, broker, process, listener,
                   setup, closer, bindings, stopped, reconnected, settled,
                   published, mqRest, brokerRest>>

\* the server is lost, with every connection to it.  An abnormal loss makes
\* a connection emit 'error': the listener of lines 38-41 schedules the
\* retry; on a connection without a listener the event is an uncaught
\* exception and index.ts exits the process.  A graceful close by the
\* server emits 'close' only.
ConnectionLost(kind) ==
    /\ Running /\ (connection = "open" \/ leaked)
    /\ broker' = "down"
    /\ connection' = IF connection = "open" THEN "closed" ELSE connection
    /\ channel' = IF channel = "open" THEN "closed" ELSE channel
    /\ consumer' = FALSE
    /\ leaked' = FALSE /\ stale' = FALSE
    /\ IF kind = "close" THEN UNCHANGED <<timers, process>>
       ELSE IF connection = "open" /\ listener /\ ~leaked
       THEN timers' = setTimeout(timers) /\ process' = process
       ELSE timers' = timers /\ process' = "exited"
    /\ UNCHANGED <<listener, setup, closer, bindings, stopped, reconnected,
                   settled, published, channels, deliveredOn, unacked,
                   brokerRest>>

\* the server becomes reachable, or unreachable while no connection is open
BrokerTurns ==
    /\ Running
    /\ \/ broker = "down" /\ broker' = "up"
       \/ broker = "up" /\ connection # "open" /\ ~leaked /\ broker' = "down"
    /\ UNCHANGED <<connection, channel, listener, setup, closer, timers,
                   bindings, consumer, process, stopped, reconnected, settled,
                   published, mqRest, brokerRest>>

\* time passes: every pending timer comes one tick closer
Elapse ==
    /\ Running
    /\ \E d \in 1..ReconnectDelay : timers[d] > 0
    /\ timers' = [d \in 0..ReconnectDelay |->
                    IF d = 0 THEN timers[0] + timers[1]
                    ELSE IF d = ReconnectDelay THEN 0
                    ELSE timers[d + 1]]
    /\ UNCHANGED <<connection, channel, listener, setup, closer, broker,
                   bindings, consumer, process, stopped, reconnected, settled,
                   published, mqRest, brokerRest>>

\* closeMessageBroker is called and runs up to the await on channel.close();
\* close() on a closed channel throws into the catch
CloseStart ==
    /\ Running /\ ~stopped
    /\ stopped' = TRUE
    /\ closer' = (CASE channel = "null" -> "connection"
                    [] channel = "closed" -> "idle"
                    [] OTHER -> "channel")
    /\ channel' = IF channel = "open" THEN "closed" ELSE channel
    /\ consumer' = FALSE
    /\ UNCHANGED <<connection, listener, setup, timers, broker, bindings,
                   process, reconnected, settled, published, mqRest,
                   brokerRest>>

\* channel.close() settles, then connection.close() is called
CloseChannel ==
    /\ Running /\ closer \in {"channel", "connection"}
    /\ closer' = IF closer = "channel" THEN "connection" ELSE "idle"
    /\ IF closer = "connection" /\ connection = "open"
       THEN connection' = "closed"
       ELSE connection' = connection
    /\ channel' = IF closer = "connection" /\ connection = "open"
                        /\ channel = "open"
                  THEN "closed" ELSE channel
    /\ UNCHANGED <<listener, setup, timers, broker, bindings, consumer,
                   process, stopped, reconnected, settled, published, mqRest,
                   brokerRest>>

\* a consumer is handed a message: the consumer of the module's channel, or
\* one that stayed registered on an earlier channel.  handleMessage has no
\* await: it settles on the module's channel as it is at the delivery.
\* The queue keeps a message until it is acknowledged on the channel that
\* delivered it; a message that is requeued is delivered again.
HandleMessage(msg) ==
    /\ Running
    /\ \E on \in {"current", "stale"} :
        /\ IF on = "current" THEN consumer /\ channel = "open" ELSE stale
        /\ deliveredOn' = [consumer |-> on, nth |-> channels]
        /\ LET h == handleMessage(msg, channel) IN
           /\ settled' = h
           /\ process' = IF h.rejected THEN "exited" ELSE process
           /\ unacked' = IF msg = "null" THEN unacked
                         ELSE IF on = "current" /\ h.acks = 1
                         THEN (IF unacked = msg THEN "-" ELSE unacked)
                         ELSE msg
    /\ UNCHANGED <<connection, channel, listener, setup, closer, timers,
                   broker, bindings, consumer, stopped, reconnected,
                   published, leaked, stale, channels, brokerRest>>

\* the queue delivers again the message that was requeued
Redeliver == unacked # "-" /\ HandleMessage(unacked)

\* publishMessage is called
Publish(out) ==
    /\ Running
    /\ out \in Outcomes(channel)
    /\ published' = [channel |-> channel, outcome |-> out,
                     returned |-> publishMessage(channel, out)]
    /\ UNCHANGED <<connection, channel, listener, setup, closer, timers,
                   broker, bindings, consumer, process, stopped, reconnected,
                   settled, mqRest, brokerRest>>

\* ------------------------------------------------------------- environment
Tick ==
    /\ now < MaxTime
    /\ now' = now + 1
    /\ UNCHANGED <<mq, iam, users, verificationCodes, bot, channel, slots, tokens,
                   nreq, hist, used>>

\* Slots are anonymous: a new request takes the lowest slot that is free.
Lowest(r) == Free(r) /\ \A q \in Slots : q < r => ~Free(q)

Admit(r) == nreq < MaxRequests /\ Lowest(r)
AdmitToken == nreq < MaxSession

\* The login flow: every interleaving of login and verify2FA requests with
\* each other, with the deactivation of users and with the clock.  The
\* service starts on a table with at most one user, so that t2 is an
\* external id nobody registered; the clock runs as far as a code's life
\* needs.
InitLogin == Init /\ ~Exists("u2") /\ NoGrants

Next ==
    \/ \E r \in Slots, tid \in TelegramIds, c \in Codes :
            Admit(r) /\ LoginFind(r, tid, c)
    \/ \E r \in Slots, sent \in BOOLEAN, out \in PublishOutcomes :
            LoginSend(r, sent, out)
    \/ \E r \in Slots, tid \in TelegramIds, c \in Codes :
            Admit(r) /\ VerifyCheck(r, tid, c)
    \/ \E r \in Slots : VerifyFind(r)
    \/ \E r \in Slots, out \in PublishOutcomes : VerifyUpdate(r, out)
    \/ \E r \in Slots, id \in UserIds, out \in PublishOutcomes :
            Admit(r) /\ DeactivateUser(r, id, out)
    \/ now < MaxCodeTime /\ Tick

Spec == InitLogin /\ [][Next]_vars

\* The token life cycle: one client at a time logs in, verifies and then
\* presents the tokens it was given (or forged ones) to authenticate, to the
\* gateway, to refreshToken and to logout, while users are deactivated and
\* the clock runs.  The service starts with both users registered and the
\* bot configured; the value login draws for the code is immaterial to the
\* tokens, so one value is drawn, and verify2FA is still given either.
InitToken == Init /\ bot /\ Exists("u2") /\ NoGrants

NextToken ==
    \/ \E tid \in TelegramIds : AdmitToken /\ LoginFind(1, tid, "c1")
    \/ \E sent \in BOOLEAN, out \in PublishOutcomes : LoginSend(1, sent, out)
    \/ \E tid \in TelegramIds, c \in Codes : AdmitToken /\ VerifyCheck(1, tid, c)
    \/ VerifyFind(1)
    \/ \E out \in PublishOutcomes : VerifyUpdate(1, out)
    \/ \E id \in UserIds, out \in PublishOutcomes : AdmitToken /\ DeactivateUser(1, id, out)
    \/ \E h \in Headers : AdmitToken /\ Authenticate(1, h)
    \/ \E h \in Headers, key \in GatewaySecrets, net \in {"up", "down"} :
            AdmitToken /\ GatewayAuth(1, h, key, net)
    \/ \E tok \in Presentable : AdmitToken /\ RefreshToken(1, tok)
    \/ \E h \in Headers, out \in PublishOutcomes : AdmitToken /\ Logout(1, h, out)
    \/ Tick

SpecToken == InitToken /\ [][NextToken]_vars

\* Authorization: one client at a time sends requests through authorize
\* (slot 1) while administrators assign grants (the other slots).
MaxGrants == 2
AdmitGrant(r) == nreq < MaxGrants /\ Lowest(r)
AdmitAdmin(r) ==
    /\ nreq < MaxGrants
    /\ r # 1 /\ Free(r) /\ \A q \in Slots \ {1} : q < r => ~Free(q)

NextAuthz ==
    \/ \E q \in Requests : nreq < MaxGrants /\ Authorize(1, q[1], q[2])
    \/ AuthorizePermissions(1)
    \/ \E r \in Slots, u \in UserIds, x \in RoleIds, out \in PublishOutcomes :
            AdmitAdmin(r) /\ AssignRolesFind(r, u, <<x>>, out)
    \/ \E r \in Slots, out \in PublishOutcomes : AssignRolesCheck(r, out)
    \/ \E r \in Slots, out \in PublishOutcomes : AssignRolesCreate(r, out)
    \/ \E r \in Slots, x \in RoleIds, y \in PermissionIds,
          out \in PublishOutcomes :
            AdmitAdmin(r) /\ AssignPermissionsFind(r, x, <<y>>, out)
    \/ \E r \in Slots, out \in PublishOutcomes : AssignPermissionsCheck(r, out)
    \/ \E r \in Slots, out \in PublishOutcomes : AssignPermissionsCreate(r, out)

InitAuthz == Init /\ Exists("u2") /\ bot

SpecAuthz == InitAuthz /\ [][NextAuthz]_vars

\* The IAM controller: assignments and deletions in every interleaving.
NextIam ==
    \/ \E r \in Slots, u \in UserIds, ids \in IdLists(RoleIds),
          out \in PublishOutcomes :
            AdmitGrant(r) /\ AssignRolesFind(r, u, ids, out)
    \/ \E r \in Slots, out \in PublishOutcomes : AssignRolesCheck(r, out)
    \/ \E r \in Slots, out \in PublishOutcomes : AssignRolesCreate(r, out)
    \/ \E r \in Slots, x \in RoleIds, ids \in IdLists(PermissionIds),
          out \in PublishOutcomes :
            AdmitGrant(r) /\ AssignPermissionsFind(r, x, ids, out)
    \/ \E r \in Slots, out \in PublishOutcomes : AssignPermissionsCheck(r, out)
    \/ \E r \in Slots, out \in PublishOutcomes : AssignPermissionsCreate(r, out)
    \/ \E r \in Slots, x \in RoleIds : AdmitGrant(r) /\ DeleteRoleFind(r, x)
    \/ \E r \in Slots : DeleteRoleCount(r)
    \/ \E r \in Slots : DeleteRolePermissions(r)
    \/ \E r \in Slots, out \in PublishOutcomes : DeleteRoleDestroy(r, out)
    \/ \E r \in Slots, y \in PermissionIds :
            AdmitGrant(r) /\ DeletePermissionFind(r, y)
    \/ \E r \in Slots : DeletePermissionCount(r)
    \/ \E r \in Slots, out \in PublishOutcomes : DeletePermissionDestroy(r, out)

\* The service starts with u2 an admin and users:update granted to viewer,
\* a role nobody holds (the controller reads no include that involves
\* eagerLoad).
InitIam ==
    /\ Init /\ Exists("u2") /\ bot /\ eagerLoad = "rejects"
    /\ userRoles = Rows(UserIds \X RoleIds, {<<"u2", "r1">>})
    /\ rolePermissions = Rows(RoleIds \X PermissionIds, {<<"r2", "p1">>})

SpecIam == InitIam /\ [][NextIam]_vars

\* The message broker client: startServer calls setupMessageBroker once;
\* the server comes and goes, connections are lost, timers run, messages
\* arrive, events are published and the service is shut down.
NextBroker ==
    \/ SetupStart
    \/ SetupConnect
    \/ \E ok \in BOOLEAN : SetupChannel(ok)
    \/ \E ok \in BOOLEAN : SetupDeclare(ok)
    \/ \E ok \in BOOLEAN : SetupConsume(ok)
    \/ \E kind \in {"error", "close"} : ConnectionLost(kind)
    \/ BrokerTurns
    \/ Elapse
    \/ CloseStart
    \/ CloseChannel
    \/ \E msg \in Messages : HandleMessage(msg)
    \/ \E out \in PublishOutcomes : Publish(out)

InitBroker == Init /\ ~Exists("u1") /\ NoGrants /\ ~bot

SpecBroker == InitBroker /\ [][NextBroker]_vars

\* The same client while the service is not shut down.  The event loop runs
\* every continuation that is ready and every timer that is due, and time
\* passes; the queue delivers a requeued message again while it has a
\* consumer; nothing else is assumed of the server.
NextReconnect ==
    \/ SetupStart
    \/ SetupConnect
    \/ SetupChannel(TRUE)
    \/ SetupDeclare(TRUE)
    \/ SetupConsume(TRUE)
    \/ \E kind \in {"error", "close"} : ConnectionLost(kind)
    \/ BrokerTurns
    \/ Elapse
    \/ \E msg \in Messages : HandleMessage(msg)
    \/ \E out \in PublishOutcomes : Publish(out)

SpecReconnect ==
    /\ InitBroker /\ [][NextReconnect]_vars
    /\ WF_vars(SetupStart) /\ WF_vars(SetupConnect)
    /\ WF_vars(SetupChannel(TRUE)) /\ WF_vars(SetupDeclare(TRUE))
    /\ WF_vars(SetupConsume(TRUE)) /\ WF_vars(Elapse) /\ WF_vars(Redeliver)

\* Events: register and deleteRole requests while the broker client
\* connects, loses its connection and reconnects.
NextEvents ==
    \/ \E r \in Slots, tid \in TelegramIds : AdmitGrant(r) /\ RegisterFind(r, tid)
    \/ \E r \in Slots, out \in Outcomes(channel) : RegisterCreate(r, out)
    \/ \E r \in Slots, x \in RoleIds : AdmitGrant(r) /\ DeleteRoleFind(r, x)
    \/ \E r \in Slots : DeleteRoleCount(r)
    \/ \E r \in Slots : DeleteRolePermissions(r)
    \/ \E r \in Slots, out \in Outcomes(channel) : DeleteRoleDestroy(r, out)
    \/ SetupStart
    \/ SetupConnect
    \/ SetupChannel(TRUE)
    \/ SetupDeclare(TRUE)
    \/ SetupConsume(TRUE)
    \/ \E kind \in {"error", "close"} : ConnectionLost(kind)
    \/ BrokerTurns
    \/ Elapse

InitEvents ==
    /\ Init /\ Exists("u1") /\ ~Exists("u2") /\ ~bot /\ eagerLoad = "rejects"
    /\ userRoles = Rows(UserIds \X RoleIds, {})
    /\ rolePermissions = Rows(RoleIds \X PermissionIds, {<<"r2", "p1">>})

SpecEvents == InitEvents /\ [][NextEvents]_vars

\* The users table: registration and the user controller.
NextUsers ==
    \/ \E r \in Slots, tid \in TelegramIds : Admit(r) /\ RegisterFind(r, tid)
    \/ \E r \in Slots, out \in PublishOutcomes : RegisterCreate(r, out)
    \/ \E r \in Slots, id \in UserIds, out \in PublishOutcomes :
            Admit(r) /\ DeactivateUser(r, id, out)
    \/ \E r \in Slots, id \in UserIds, a \in BOOLEAN, out \in PublishOutcomes :
            Admit(r) /\ UpdateUser(r, id, a, out)

\* the user controller and register read neither the IAM tables nor the bot
\* in a way that changes their answer
InitUsers == Init /\ NoGrants /\ ~bot

SpecUsers == InitUsers /\ [][NextUsers]_vars


(***************************************************************************)
(* The one-time code (specification Spec)                                  *)
(***************************************************************************)
NoCodeFound == Res(400, "No verification code found. Please request a new one")
CodeExpired == Res(400, "Verification code expired. Please request a new one")
CodeMismatch == Res(400, "Invalid verification code")

Verifies == {r \in Slots : slots[r].kind = "verify"}

\* C1: verify2FA holds or returns a token pair for a principal only if the
\* entry it read at its check was stored for that principal's telegramId,
\* was not past its expiry at that moment and equals the submitted code, and
\* an active principal was found; an answer other than 200 carries no pair.
C1_TokenOnlyForValidCode ==
    \A r \in Verifies :
        LET s == slots[r] IN
        /\ s.pair # NoPair =>
                /\ s.seen # NoCode
                /\ s.seen.tid = s.tid
                /\ s.at <= s.seen.expires
                /\ s.seen.code = s.code
                /\ s.active
                /\ users[s.pair.token.id].telegramId = s.tid
        /\ s.pc = "done" => (s.res.status = 200 <=> s.pair # NoPair)

C1_Witness ==
    \E r \in Verifies :
        /\ slots[r].pc = "done" /\ slots[r].res.status = 200
        /\ slots[r].pair.token \in tokens

\* C7: while the entry login stored is in its window, a verify with another
\* code is answered CodeMismatch and the entry stays as login stored it,
\* whatever the number of mismatches; a verify with the issued code made
\* after those mismatches and within the window passes the checks (it is
\* answered 200, or 404 when the principal is no longer active).
C7_MismatchKeepsCode ==
    /\ \A r \in Verifies :
            LET s == slots[r] IN
            /\ (s.seen # NoCode /\ s.at <= s.seen.expires
                    /\ s.code # s.seen.code)
                    => s.pc = "done" /\ s.res = CodeMismatch
            /\ (s.h.wrong > 0 /\ s.h.consumed = "no"
                    /\ s.code = s.h.issued.code /\ s.at <= s.h.issued.expires)
                    => (s.pc = "done" => s.res.status \in {200, 404})
    /\ \A tid \in TelegramIds :
            (hist[tid].wrong > 0 /\ hist[tid].consumed = "no")
                => verificationCodes[tid] = hist[tid].issued

C7_Witness ==
    \E r \in Verifies :
        /\ slots[r].h.wrong > 0 /\ slots[r].h.consumed = "no"
        /\ slots[r].code = slots[r].h.issued.code
        /\ slots[r].pc = "done" /\ slots[r].res.status = 200

\* C8: once a verify for a telegramId has succeeded and no login has stored a
\* new entry since, the map holds no entry for it and every further verify
\* for it is answered NoCodeIssued and issues nothing.
C8_SingleUse ==
    /\ \A tid \in TelegramIds :
            hist[tid].consumed = "verified" => verificationCodes[tid] = NoCode
    /\ \A r \in Verifies :
            slots[r].h.consumed = "verified"
                => /\ slots[r].pc = "done"
                   /\ slots[r].res = NoCodeFound
                   /\ slots[r].pair = NoPair

C8_Witness ==
    \E r \in Verifies :
        /\ slots[r].h.consumed = "verified"
        /\ slots[r].code = slots[r].h.issued.code
        /\ slots[r].res = NoCodeFound

\* C9 (as claimed): two verify requests that both read the same issued entry
\* are never both answered 200.
C9_OneSuccessPerCode ==
    \A r1, r2 \in Verifies :
        (/\ r1 # r2
         /\ slots[r1].pc = "done" /\ slots[r1].res.status = 200
         /\ slots[r2].pc = "done" /\ slots[r2].res.status = 200)
            => slots[r1].seen.iss # slots[r2].seen.iss

\* C10 (as claimed): the last step of a verify never removes an entry that a
\* login, since answered 200, stored after that verify read the map.
C10_LastIssueWins ==
    [][\A r \in Verifies :
            (/\ slots[r].pc = "update"
             /\ slots'[r].pc = "done"
             /\ verificationCodes[slots[r].tid].iss # slots[r].seen.iss
             /\ \E q \in Slots :
                    /\ slots[q].kind = "login"
                    /\ slots[q].pc = "done" /\ slots[q].res.status = 200
                    /\ slots[q].seen = verificationCodes[slots[r].tid])
                => verificationCodes'[slots[r].tid]
                        = verificationCodes[slots[r].tid]]_vars

Logins == {r \in Slots : slots[r].kind = "login"}

\* C11: a verify that reads an entry after its expiry is answered CodeExpired
\* and gets no pair; that answer leaves the map without an entry for the
\* telegramId, and until a login stores a new one every further verify for
\* it is answered NoCodeIssued.
C11_ExpiredIsPurged ==
    /\ \A r \in Verifies :
            LET s == slots[r] IN
            /\ (s.seen # NoCode /\ s.at > s.seen.expires)
                    => s.pc = "done" /\ s.res = CodeExpired /\ s.pair = NoPair
            /\ s.h.consumed = "expired"
                    => s.pc = "done" /\ s.res = NoCodeFound /\ s.pair = NoPair
    /\ \A tid \in TelegramIds :
            hist[tid].consumed = "expired" => verificationCodes[tid] = NoCode

C11_Witness ==
    \E r \in Verifies :
        /\ slots[r].h.consumed = "expired"
        /\ slots[r].code = slots[r].h.issued.code
        /\ slots[r].res = NoCodeFound

\* C12: the map holds at most the entry the last login for the telegramId
\* stored; a verify passes the checks only with the code of that entry, and
\* a verify that submits the code of an earlier login, read within the
\* window of a later entry with another code, is answered CodeMismatch.
C12_OnlyLastCode ==
    /\ \A tid \in TelegramIds :
            verificationCodes[tid] \in {NoCode, hist[tid].issued}
    /\ \A r \in Verifies :
            LET s == slots[r] IN
            /\ (s.pc \in {"findUser", "update"} \/ s.pair # NoPair)
                    => s.seen = s.h.issued /\ s.code = s.h.issued.code
            /\ \A q \in Logins :
                    (/\ slots[q].tid = s.tid
                     /\ slots[q].seen # NoCode
                     /\ s.seen # NoCode
                     /\ slots[q].seen.iss < s.seen.iss
                     /\ s.code = slots[q].seen.code
                     /\ s.code # s.seen.code
                     /\ s.at <= s.seen.expires)
                        => s.pc = "done" /\ s.res = CodeMismatch

C12_Witness ==
    \E r \in Verifies, q \in Logins :
        /\ slots[q].tid = slots[r].tid
        /\ slots[q].seen # NoCode /\ slots[r].seen # NoCode
        /\ slots[q].seen.iss < slots[r].seen.iss
        /\ slots[r].code = slots[q].seen.code
        /\ slots[r].res = CodeMismatch

LoginFailed ==
    {Res(500, "Failed to send verification code"),
     Res(503, "Telegram bot service unavailable")}

\* C13 (as claimed): when login is answered DeliveryFailed, the entry it
\* stored is no longer in the map.
C13_FailedDeliveryDiscards ==
    \A q \in Logins :
        (slots[q].pc = "done" /\ slots[q].res \in LoginFailed)
            => verificationCodes[slots[q].tid] # slots[q].seen


(***************************************************************************)
(* The tokens (specification SpecToken)                                    *)
(***************************************************************************)
TokenExpired == Res(401, "Token expired")
RefreshExpired == Res(401, "Refresh token expired")
WrongClassAccess == Res(401, "Invalid token type")
WrongClassRefresh == Res(400, "Invalid refresh token")

\* requests that presented a token the service has issued
Presented(kinds) ==
    {r \in Slots : slots[r].kind \in kinds /\ slots[r].token \in tokens}

Passed(r) == slots[r].res.message = "next"

\* C2 (as claimed): a refresh token presented as bearer token to authenticate
\* or to the gateway authMiddleware never passes, and while it is unexpired
\* and the verifier holds the signing secret it is rejected for its class.
C2_RefreshTokenNotAccepted ==
    \A r \in Presented({"authenticate", "gateway"}) :
        LET s == slots[r] IN
        s.token.type = "refresh" =>
            /\ ~Passed(r)
            /\ (s.at < s.token.exp /\ (s.kind = "gateway" => s.key = AuthSecret))
                    => s.res = WrongClassAccess

\* C3: generateToken puts the id it was called with in the access token, and
\* that token, presented to authenticate before its expiry while the
\* principal is active, passes with the request attributed to the same id.
C3_AccessTokenAuthenticates ==
    /\ \A r \in Slots :
            (slots[r].kind \in {"verify", "refresh"} /\ slots[r].pair # NoPair)
                => /\ slots[r].pair.token.id = slots[r].user
                   /\ slots[r].pair.token.type = "absent"
    /\ \A r \in Presented({"authenticate"}) :
            LET s == slots[r] IN
            (/\ s.token.type = "absent"
             /\ s.at < s.token.exp
             /\ users[s.token.id].isActive)
                => Passed(r) /\ s.user = s.token.id

C3_Witness ==
    \E r \in Presented({"authenticate"}) :
        /\ slots[r].token.type = "absent"
        /\ Passed(r) /\ slots[r].user = slots[r].token.id

\* C4 (as claimed): every access token presented to refreshToken is answered
\* WrongTokenClass and gets no pair.
C4_AccessTokenIsWrongClass ==
    \A r \in Presented({"refresh"}) :
        slots[r].token.type = "absent"
            => slots[r].res = WrongClassRefresh /\ slots[r].pair = NoPair

\* C4 (amended): an access token presented to refreshToken gets no pair; it
\* is answered WrongTokenClass while it is unexpired and Expired afterwards.
C4_AccessTokenRejected ==
    \A r \in Presented({"refresh"}) :
        LET s == slots[r] IN
        s.token.type = "absent" =>
            /\ s.pair = NoPair
            /\ s.res.status # 200
            /\ s.at < s.token.exp => s.res = WrongClassRefresh
            /\ s.at >= s.token.exp => s.res = RefreshExpired

C4_Witness ==
    \E r \in Presented({"refresh"}) :
        /\ slots[r].token.type = "absent"
        /\ slots[r].res = WrongClassRefresh

\* C5: a token that carries the signature the verifier checks for and is
\* presented at or after its expiry is answered Expired by authenticate (also
\* under logout), by the gateway authMiddleware and by refreshToken.
C5_ExpiredIsExpired ==
    \A r \in Slots :
        LET s == slots[r] IN
        (/\ s.kind \in {"authenticate", "logout", "gateway", "refresh"}
         /\ s.hdr \in {"bearer", "body"}
         /\ s.token.sig = (IF s.kind = "gateway" THEN s.key ELSE AuthSecret)
         /\ s.at >= s.token.exp)
            => s.res = (IF s.kind = "refresh" THEN RefreshExpired
                        ELSE TokenExpired)

C5_Witness ==
    \E r \in Presented({"gateway"}) :
        /\ slots[r].key = AuthSecret
        /\ slots[r].at >= slots[r].token.exp
        /\ slots[r].res = TokenExpired

\* C6: refreshToken with an issued, unexpired refresh token of an active
\* principal answers 200 with an access/refresh pair for that principal,
\* also when the same token was accepted before; a refreshToken request
\* changes nothing in the users table, the code map, or the broker state.
C6_RefreshAnswer ==
    \A r \in Presented({"refresh"}) :
        LET s == slots[r] IN
        (/\ s.token.type = "refresh"
         /\ s.at < s.token.exp
         /\ users[s.token.id].isActive)
            => /\ s.res.status = 200
               /\ s.user = s.token.id
               /\ s.pair.token.id = s.token.id
               /\ s.pair.token.type = "absent"
               /\ s.pair.refreshToken.id = s.token.id
               /\ s.pair.refreshToken.type = "refresh"
               /\ {s.pair.token, s.pair.refreshToken, s.token} \subseteq tokens

C6_RefreshStep ==
    \A r \in Slots :
        (nreq' = nreq + 1 /\ slots'[r] # slots[r] /\ slots'[r].kind = "refresh")
            => UNCHANGED <<users, verificationCodes, bot, channel, now, hist>>

C6_RefreshIsStateless == [] C6_RefreshAnswer /\ [][C6_RefreshStep]_vars

C6_Witness ==
    \E r \in Presented({"refresh"}) :
        /\ slots[r].again
        /\ slots[r].res.status = 200
        /\ slots[r].pair.refreshToken # slots[r].token

(***************************************************************************)
(* Authorization (specification SpecAuthz)                                 *)
(***************************************************************************)
Forbidden == Res(403, "Forbidden: Insufficient permissions")

Authorizes == {r \in Slots : slots[r].kind = "authorize"}

SelfAccess(s) == s.call.allowSelf /\ s.call.id = s.user

RoleNames(s) == {row.name : row \in s.rows}

Matches(s, perms) ==
    \E p \in perms :
        /\ p.resource = s.call.baseUrl[Len(s.call.baseUrl)]
        /\ p.action =
            (CASE s.call.method = "GET" -> "read"
               [] s.call.method = "POST" -> "create"
               [] s.call.method = "PUT" -> "update"
               [] s.call.method = "PATCH" -> "update"
               [] s.call.method = "DELETE" -> "delete"
               [] OTHER -> "read")

\* C14: on a route declared with allowSelf, an authenticated principal whose
\* id is the :id of the request passes authorize, also when it holds no
\* role; on a route declared without it the :id has no part in the answer,
\* and a request passes only for requiredRoles being empty, for a role it
\* holds or for a permission of its roles.
C14_SelfOverride ==
    /\ \A r \in Authorizes :
            LET s == slots[r] IN
            /\ (s.user # "-" /\ SelfAccess(s)) => s.pc = "done" /\ Passed(r)
            /\ (s.pc = "done" /\ Passed(r) /\ ~s.call.allowSelf)
                    => \/ s.call.requiredRoles = {}
                       \/ RoleNames(s) \cap s.call.requiredRoles # {}
                       \/ Matches(s, {rp.permission : rp \in s.rps})
    /\ \A q \in Requests, id \in UserIds \cup {"-"} :
            ~q[1].allowSelf
                => authorize([q[1] EXCEPT !.id = id], q[2],
                             userRoles, rolePermissions)
                        = authorize(q[1], q[2], userRoles, rolePermissions)

C14_Witness ==
    \E r \in Authorizes :
        LET s == slots[r] IN
        /\ SelfAccess(s) /\ Passed(r)
        /\ \A x \in RoleIds : userRoles[<<s.user, x>>] = 0

\* C15 (as claimed): a request of a principal that holds a role named in
\* requiredRoles passes authorize, whatever the permission tables hold.
C15_RequiredRoleAllows ==
    \A r \in Authorizes :
        LET s == slots[r] IN
        (s.user # "-" /\ RoleNames(s) \cap s.call.requiredRoles # {})
            => s.pc = "done" /\ Passed(r)

\* C16 (as claimed): a principal without a required role that reaches the
\* permission users:update (and not users:delete) through its roles passes
\* authorize on PUT /api/users/:id and is answered Forbidden on
\* DELETE /api/users/:id, for an :id that is not its own.
C16_PermissionFallback ==
    \A r \in Authorizes :
        LET s == slots[r] IN
        (/\ s.pc = "done"
         /\ s.user # "-" /\ s.call.id \notin {"-", s.user}
         /\ s.call.baseUrl = UsersBase
         /\ RoleNames(s) \cap s.call.requiredRoles = {}
         /\ [resource |-> "users", action |-> "update"] \in s.reach
         /\ [resource |-> "users", action |-> "delete"] \notin s.reach)
            => /\ s.call.method = "PUT" => Passed(r)
               /\ s.call.method = "DELETE" => s.res = Forbidden

\* C17 (as claimed): authorize answers an authenticated principal Forbidden
\* when self access does not apply, requiredRoles is not empty, none of the
\* role names it read is required and no permission it read matches the
\* resource and the action of the verb; in every other case the request
\* passes.
C17_Denied(s) ==
    /\ ~SelfAccess(s)
    /\ s.call.requiredRoles # {}
    /\ RoleNames(s) \cap s.call.requiredRoles = {}
    /\ ~Matches(s, {rp.permission : rp \in s.rps})

C17_DenyExactly ==
    \A r \in Authorizes :
        LET s == slots[r] IN
        (s.pc = "done" /\ s.user # "-")
            => IF C17_Denied(s) THEN s.res = Forbidden ELSE Passed(r)

\* C18: whenever a row is added to user_roles or to role_permissions, every
\* request that authorize lets pass on the tables before the step passes on
\* the tables after it.
C18_Step ==
    \A q \in Requests :
        authorize(q[1], q[2], userRoles, rolePermissions).message = "next"
            => authorize(q[1], q[2], userRoles', rolePermissions').message
                    = "next"

C18_GrantsOnlyAllow == [][C18_Step]_vars

C18_Witness ==
    /\ \E r \in Slots :
            /\ slots[r].kind \in {"assignRoles", "assignPermissions"}
            /\ slots[r].pc = "done" /\ slots[r].n > 0
    /\ \E q \in Requests :
            /\ ~(q[1].allowSelf /\ q[1].id = q[2])
            /\ q[1].requiredRoles # {}
            /\ authorize(q[1], q[2], userRoles, rolePermissions).message
                    = "next"

(***************************************************************************)
(* The IAM controller (specification SpecIam)                              *)
(***************************************************************************)
Assigns == {r \in Slots : slots[r].kind \in {"assignRoles", "assignPermissions"}}

\* the pair the loop of an assignment request is at, and whether its table
\* holds it
AssignedPair(s) ==
    IF s.kind = "assignRoles" THEN userRoles[<<s.user, s.ids[s.i]>>] > 0
    ELSE rolePermissions[<<s.key, s.ids[s.i]>>] > 0

OnePerPair ==
    /\ \A k \in UserIds \X RoleIds : userRoles[k] <= 1
    /\ \A k \in RoleIds \X PermissionIds : rolePermissions[k] <= 1

\* a step of the loop that finds its pair assigned goes on to the next id or
\* to the 200 answer, having created nothing; no step adds a row for a pair
\* that has one
C19_Step ==
    /\ \A r \in Assigns :
            LET s == slots[r] IN
            (s.pc = "check" /\ AssignedPair(s) /\ slots'[r] # s)
                => /\ userRoles' = userRoles
                   /\ rolePermissions' = rolePermissions
                   /\ slots'[r].n = s.n
                   /\ \/ slots'[r].pc = "check" /\ slots'[r].i = s.i + 1
                      \/ slots'[r].pc = "done" /\ slots'[r].res.status = 200
    /\ \A k \in UserIds \X RoleIds :
            userRoles[k] > 0 => userRoles'[k] <= userRoles[k]
    /\ \A k \in RoleIds \X PermissionIds :
            rolePermissions[k] > 0 => rolePermissions'[k] <= rolePermissions[k]

\* C19: an assignment request that reaches its loop with a (principal, role)
\* or (role, permission) pair that is already assigned creates nothing for
\* it and goes on to answer 200, and in every state each pair has at most
\* one association.
C19_AssignIsIdempotent == []OnePerPair /\ [][C19_Step]_vars

\* a request that named only pairs that were assigned has answered 200
C19_Witness ==
    \E r \in Assigns :
        /\ slots[r].pc = "done" /\ slots[r].res.status = 200
        /\ Len(slots[r].ids) > 0 /\ slots[r].n = 0

\* the status the controllers answer a Conflict with (a name or an external
\* id that is taken)
ConflictStatus == 409

Deletes == {r \in Slots : slots[r].kind \in {"deleteRole", "deletePermission"}}

\* the record a deletion request names is in use when its count is answered
InUse(s) ==
    IF s.kind = "deleteRole" THEN userRoleCount(s.key) > 0
    ELSE rolePermissionCount(s.key) > 0

C20_Step ==
    \A r \in Deletes :
        LET s == slots[r] IN
        (s.pc = "count" /\ InUse(s) /\ slots'[r] # s)
            => /\ slots'[r].pc = "done"
               /\ slots'[r].res.status = ConflictStatus
               /\ roles' = roles /\ permissions' = permissions
               /\ userRoles' = userRoles
               /\ rolePermissions' = rolePermissions

\* C20 (as claimed): deleteRole on a role that a principal holds, and
\* deletePermission on a permission that a role carries, are answered with
\* a Conflict and leave the roles, the permissions and both association
\* tables as they were.
C20_GuardedDeleteIsConflict == [][C20_Step]_vars

Live == connection = "open" /\ channel = "open"

\* C22: while the module has no live channel (none yet, the channel of a
\* lost connection before a reconnect, the channel closeMessageBroker
\* closed) publishMessage can be called at once and answers false for
\* whatever channel.publish does, a throw included.
C22_PublishReturnsFalse ==
    /\ (published # NoPublish /\ published.channel # "open")
            => published.returned = FALSE
    /\ (Running /\ ~Live)
            => /\ ENABLED (\E o \in PublishOutcomes : Publish(o))
               /\ \A o \in Outcomes(channel) : publishMessage(channel, o) = FALSE

\* a publish on the channel of a lost connection while the retry is pending
C22_Witness ==
    /\ published.channel = "closed" /\ published.outcome = "throw"
    /\ ~published.returned
    /\ connection = "closed" /\ Pending /\ ~stopped

(***************************************************************************)
(* Events (specification SpecEvents)                                       *)
(***************************************************************************)
Emitted == {r \in Slots : slots[r].event.key # "-"}

\* what the operation of a slot committed is in the store
Committed(s) ==
    CASE s.kind = "register" ->
            Exists(s.user) /\ users[s.user].telegramId = s.tid
      [] s.kind = "deleteRole" ->
            /\ ~RoleExists(s.key)
            /\ \A k \in DOMAIN userRoles : k[2] = s.key => userRoles[k] = 0
            /\ \A k \in DOMAIN rolePermissions :
                    k[1] = s.key => rolePermissions[k] = 0
      [] OTHER -> TRUE

\* C23: an operation that reached its publishMessage is answered with its
\* success status and its writes are in the store, whether the event was
\* delivered or publishMessage answered false (no channel, a full buffer,
\* a throw of channel.publish).
C23_PublishNeverFails ==
    \A r \in Emitted :
        LET s == slots[r] IN
        /\ s.pc = "done"
        /\ s.res.status = (IF s.kind = "register" THEN 201 ELSE 200)
        /\ Committed(s)

\* a register and a deleteRole have answered, one with its event delivered
\* and one without, the channel being one a publish throws on
C23_Witness ==
    /\ channel = "closed"
    /\ \E r \in Emitted, q \in Emitted :
            /\ slots[r].event.delivered /\ ~slots[q].event.delivered
            /\ {slots[r].kind, slots[q].kind} = {"register", "deleteRole"}

\* the service holds a live channel, its queue is bound to both patterns
\* and a consumer is registered
Established == Live /\ Patterns \subseteq bindings /\ consumer

\* a step in which amqp.connect fails or an open connection is lost
\* schedules one more setup attempt, ReconnectDelay from now
C24_Step ==
    (\/ setup = "connect" /\ setup' = "idle"
     \/ connection = "open" /\ connection' = "closed")
        => timers'[ReconnectDelay] = timers[ReconnectDelay] + 1

\* C24 (as claimed): whenever the server is unreachable at setup or the
\* connection is lost a new attempt is scheduled after the backoff, and if
\* the server becomes and stays reachable the service ends up with a live
\* channel, its queue bound to user.# and auth.#, and a consumer.
C24_ReconnectsForever ==
    /\ [][C24_Step]_vars
    /\ (<>[](broker = "up")) => <>[]Established

\* C25 (as claimed): whatever the server and the connection do, the node
\* process keeps running.
C25_ProcessSurvives == process = "running"

\* C26 (as claimed): once closeMessageBroker has returned no retry timer is
\* pending and amqp.connect is never called again.
C26_CloseStopsReconnect ==
    (stopped /\ closer = "idle") => ~Pending /\ ~reconnected

\* C27: for every message handed to handleMessage exactly one settlement is
\* sent: an ack when the body parses, whatever the routing key, and a nack
\* with requeue when it does not.
C27_OneSettlement ==
    settled.msg \notin {"-", "null"}
        => /\ settled.acks + settled.nacks = 1
           /\ settled.acks = 1 <=> settled.msg # "unparsable"
           /\ settled.nacks = 1 => settled.requeue
           /\ settled.acks = 1 => ~settled.requeue
           /\ ~settled.rejected

\* a message with a routing key the switch does not know was acknowledged
C27_Witness ==
    settled.msg = "other" /\ settled.acks = 1 /\ settled.nacks = 0

(***************************************************************************)
(* The users table (specification SpecUsers)                               *)
(***************************************************************************)
Registers == {r \in Slots : slots[r].kind = "register"}

UniqueTelegramId ==
    \A tid \in TelegramIds : Cardinality(FindByTelegramId(tid)) <= 1

\* a register request that arrives for a telegramId a user row holds is
\* answered 409 in that step, without a write and without an event
C28_Step ==
    \A r \in Slots :
        (/\ nreq' = nreq + 1 /\ slots'[r] # slots[r]
         /\ slots'[r].kind = "register"
         /\ FindByTelegramId(slots'[r].tid) # {})
            => /\ slots'[r].pc = "done"
               /\ slots'[r].res =
                    Res(409, "User with this Telegram ID already exists")
               /\ slots'[r].event = NoEvent
               /\ users' = users

\* C28: register for an external id that a principal already has fails
\* with the Conflict answer, creates nothing and publishes nothing; in
\* every state, whatever the interleaving of register calls, each external
\* id belongs to at most one principal.
C28_RegisterIsUnique ==
    /\ []UniqueTelegramId
    /\ [][C28_Step]_vars
    /\ [](\A r \in Registers :
            slots[r].res.status \notin {0, 201}
                => slots[r].event = NoEvent /\ slots[r].user = "-")

\* two registers for one id were in flight together: one created the user,
\* the other was refused
C28_Witness ==
    \E r \in Registers, q \in Registers :
        /\ r # q /\ slots[r].tid = slots[q].tid
        /\ slots[r].res.status = 201 /\ slots[q].res.status = 500

(***************************************************************************)
(* login and logout                                                        *)
(***************************************************************************)
NoActiveUser(tid) ==
    \A u \in UserIds : users[u].telegramId = tid => ~users[u].isActive

\* a login request that arrives for a telegramId without an active user is
\* answered 404 in that step: the map and the history of codes stay as they
\* are, the request never reaches sendMessage and has no event
C29_Step ==
    \A r \in Slots :
        (/\ nreq' = nreq + 1 /\ slots'[r] # slots[r]
         /\ slots'[r].kind = "login"
         /\ NoActiveUser(slots'[r].tid))
            => /\ slots'[r].pc = "done"
               /\ slots'[r].res = Res(404, "User not found or inactive")
               /\ slots'[r].event = NoEvent
               /\ verificationCodes' = verificationCodes
               /\ hist' = hist
               /\ users' = users

\* C29 (specification Spec): login for an external id with no active
\* principal, unknown or deactivated, fails with NotFound and stores or
\* overwrites no code, sends no notification and publishes no event.
C29_LoginNotFound == [][C29_Step]_vars

\* the login of a deactivated user was refused while the code of its
\* earlier login is still in the map
C29_Witness ==
    \E r \in Slots :
        /\ slots[r].kind = "login" /\ slots[r].res.status = 404
        /\ verificationCodes[slots[r].tid] # NoCode
        /\ \E u \in UserIds :
                users[u].telegramId = slots[r].tid /\ ~users[u].isActive

\* a logout request leaves the tables, the map of codes and the clock as
\* they are, and every header and every refresh token gets from authenticate
\* and from refreshToken the answer it got before the request
C30_Step ==
    \A r \in Slots :
        (/\ nreq' = nreq + 1 /\ slots'[r] # slots[r]
         /\ slots'[r].kind = "logout")
            => /\ users' = users
               /\ verificationCodes' = verificationCodes
               /\ iam' = iam
               /\ slots'[r].pc = "done"
               /\ slots'[r].res.status = 200
                    => slots'[r].event.key = "auth.logout"
               /\ slots'[r].res.status # 200 => slots'[r].event = NoEvent
               /\ \A h \in Headers :
                    authenticate(h, now)' = authenticate(h, now)
               /\ \A tok \in Presentable :
                    refreshCheck(tok, now)' = refreshCheck(tok, now)

\* C30 (specification SpecToken): logout only publishes auth.logout; it
\* changes no stored state, and the access and refresh tokens of the
\* principal are accepted after it exactly as they were before it.
C30_LogoutIsAdvisory == [][C30_Step]_vars

\* a logout was answered 200, and the access token it came with and a
\* refresh token of the same user are still accepted
C30_Witness ==
    \E r \in Slots :
        /\ slots[r].kind = "logout" /\ slots[r].res.status = 200
        /\ authenticate([hdr |-> "bearer", token |-> slots[r].token],
                        now).message = "next"
        /\ \E tok \in tokens :
            /\ tok.type = "refresh" /\ tok.id = slots[r].user
            /\ refreshCheck(tok, now).message = "next"

(***************************************************************************)
(* Events after writes                                                     *)
(***************************************************************************)
\* the request of slot s has written to the store
Wrote(s) ==
    CASE s.kind = "login" -> s.seen # NoCode
      [] s.kind = "verify" -> s.res.status = 200
      [] s.kind \in {"deactivate", "update"} -> s.res.status = 200
      [] OTHER -> FALSE

\* C31 (specification Spec): an answered operation that committed a state
\* change has attempted to publish its domain event, and an operation that
\* failed before committing has published none.
C31_EventAfterEveryWrite ==
    \A r \in Slots :
        LET s == slots[r] IN
        s.pc = "done" /\ s.kind \in {"login", "verify", "deactivate", "update"}
            => (Wrote(s) <=> s.event.key # "-")

(***************************************************************************)
(* authorize without required roles                                        *)
(***************************************************************************)
\* C32 (specification SpecAuthz): when requiredRoles is empty, authorize
\* lets an authenticated principal pass whatever the query for its roles
\* answers, a failure of that query included.
C32_NoRestrictionAllows ==
    \A r \in Authorizes :
        LET s == slots[r] IN
        s.pc = "done" /\ s.user # "-" /\ s.call.requiredRoles = {}
            => s.res.message = "next"

(***************************************************************************)
(* Assignment requests (specification SpecIam)                             *)
(***************************************************************************)
\* the target of the request of slot s, or one of the ids it lists, is not
\* in the store
Missing(s) ==
    CASE s.kind = "assignRoles" ->
            ~Exists(s.user) \/ \E x \in Range(s.ids) : ~RoleExists(x)
      [] s.kind = "assignPermissions" ->
            ~RoleExists(s.key) \/ \E x \in Range(s.ids) : ~PermissionExists(x)
      [] OTHER -> FALSE

NotFoundStatus == 404

\* an assignment request that arrives while its target or a listed id is
\* missing is answered 404 in that step, before its loop
C33_Step ==
    \A r \in Slots :
        (/\ nreq' = nreq + 1 /\ slots'[r] # slots[r]
         /\ slots'[r].kind \in {"assignRoles", "assignPermissions"}
         /\ Missing(slots'[r]))
            => /\ slots'[r].pc = "done"
               /\ slots'[r].res.status = NotFoundStatus
               /\ slots'[r].event = NoEvent
               /\ userRoles' = userRoles
               /\ rolePermissions' = rolePermissions

\* C33 (specification SpecIam): assignPermissionsToRole and assignRolesToUser
\* with a missing role or user, or with a listed id that does not exist,
\* fail with NotFound and create no association, not even for the listed
\* ids that exist.
C33_MissingIdCreatesNothing ==
    /\ [][C33_Step]_vars
    /\ [](\A r \in Assigns :
            slots[r].res.status = NotFoundStatus => slots[r].n = 0)

\* a request that lists an id that exists and one that does not was
\* answered 404, and the pair of the id that exists is not in the table
C33_Witness ==
    \E r \in Assigns :
        LET s == slots[r] IN
        /\ s.kind = "assignRoles" /\ s.res.status = NotFoundStatus
        /\ Exists(s.user) /\ Len(s.ids) = 2
        /\ \E x \in Range(s.ids), y \in Range(s.ids) :
                /\ RoleExists(x) /\ ~RoleExists(y)
                /\ userRoles[<<s.user, x>>] = 0

\* an assignment request that arrives while its target and every id it
\* lists are in the store is not answered 404
C34_Step ==
    \A r \in Slots :
        (/\ nreq' = nreq + 1 /\ slots'[r] # slots[r]
         /\ slots'[r].kind \in {"assignRoles", "assignPermissions"}
         /\ ~Missing(slots'[r]))
            => slots'[r].res.status # NotFoundStatus

\* C34 (specification SpecIam): assignPermissionsToRole and assignRolesToUser
\* fail with NotFound only if the target or a listed id does not exist; a
\* request whose listed ids all exist is not refused, also when its list
\* names an id more than once.
C34_NotFoundOnlyIfMissing == [][C34_Step]_vars

(***************************************************************************)
(* Deactivated principals                                                 *)
(***************************************************************************)
Deactivated(u) == Exists(u) /\ ~users[u].isActive

\* no token of a deactivated user passes authenticate or refreshToken
NoSessionForDeactivated ==
    \A tok \in tokens :
        Deactivated(tok.id) =>
            /\ authenticate([hdr |-> "bearer", token |-> tok], now).message
                    # "next"
            /\ refreshCheck(tok, now).message # "next"

\* a request that presents a token of a deactivated user is refused (401,
\* or 400 where refreshToken is given a token that is not a refresh token), a
\* login for its telegramId 404; a verify2FA whose findOne runs while its
\* user is deactivated is answered 404; tokens are handed out for active
\* users only
C35_Step ==
    /\ \A r \in Slots :
        (/\ nreq' = nreq + 1 /\ slots'[r] # slots[r]
         /\ slots'[r].kind \in {"authenticate", "refresh"}
         /\ slots'[r].token \in tokens
         /\ Deactivated(slots'[r].token.id))
            => slots'[r].res.status \in {400, 401} /\ tokens' = tokens
    /\ \A r \in Slots :
        (/\ nreq' = nreq + 1 /\ slots'[r] # slots[r]
         /\ slots'[r].kind = "login"
         /\ \E u \in FindByTelegramId(slots'[r].tid) : Deactivated(u))
            => /\ slots'[r].res = Res(404, "User not found or inactive")
               /\ verificationCodes' = verificationCodes
    /\ \A r \in Slots :
        (/\ slots[r].kind = "verify" /\ slots[r].pc = "findUser"
         /\ slots'[r] # slots[r]
         /\ \E u \in FindByTelegramId(slots[r].tid) : Deactivated(u))
            => /\ slots'[r].res = Res(404, "User not found or inactive")
               /\ slots'[r].pc = "done"
    /\ \A tok \in tokens' \ tokens : ~Deactivated(tok.id)

\* C35 (specification Spec): once a principal is deactivated, the
\* access and refresh tokens issued to it earlier are rejected by
\* authenticate and by refreshToken, its login fails with NotFound, and a
\* code issued before the deactivation is not exchanged for tokens.
C35_DeactivatedHasNoSession == []NoSessionForDeactivated /\ [][C35_Step]_vars

(***************************************************************************)
(* GET /api/users/me and the gateway                                       *)
(***************************************************************************)
\* C36 (specification SpecToken): a GET /api/users/me request with an
\* unexpired access token of an active principal is answered 200, and the
\* gateway authMiddleware, which accepts a token on that answer only, lets
\* such a token pass.
C36_ValidTokenPassesGateway ==
    \A tok \in tokens :
        LET h == [hdr |-> "bearer", token |-> tok] IN
        (/\ tok.type = "absent"
         /\ jwtVerify(tok, AuthSecret, now) = "ok"
         /\ FindActiveById(tok.id) # {})
            => /\ usersMe(h, now).status = 200
               /\ authMiddleware(h, AuthSecret, "up", now).message = "next"

(***************************************************************************)
(* The consumer (specifications SpecBroker and SpecReconnect)              *)
(***************************************************************************)
\* C37 (specification SpecBroker): every ack and nack of a consumed message
\* goes to the channel that delivered the message: no consumer stays
\* registered on a channel the module has replaced, so the module's channel
\* at the delivery, on which handleMessage settles, is the delivering one.
C37_SettledOnDeliveringChannel ==
    /\ ~stale
    /\ settled.acks + settled.nacks > 0 => deliveredOn.consumer = "current"

\* a message was acknowledged on the channel of a reconnect
C37_Witness ==
    /\ deliveredOn = [consumer |-> "current", nth |-> 2]
    /\ settled.acks = 1

\* C38 (specification SpecReconnect): while the service keeps its consumer,
\* every message the queue holds for redelivery is eventually acknowledged
\* and leaves the queue, whatever its body.
C38_EveryMessageLeaves ==
    (<>[]Established) => ((unacked # "-") ~> (unacked = "-"))

\* C39 (specification SpecBroker): the service never holds an open
\* connection besides the one its module variable refers to, also after a
\* setup attempt failed behind amqp.connect and the retry connected again.
C39_OneOpenConnection == ~leaked

(***************************************************************************)
(* deleteRole (specification SpecIam)                                      *)
(***************************************************************************)
\* a step of a deleteRole request for role id leaves the permissions, the
\* users, the other roles and the association rows of other roles as they
\* are; the step that answers 200 leaves neither the role nor a
\* role_permissions row of it, and a step that answers otherwise writes
\* nothing
C40_Step ==
    \A r \in Slots :
        (slots'[r].kind = "deleteRole" /\ slots'[r] # slots[r]) =>
            LET id == slots'[r].key IN
            /\ permissions' = permissions
            /\ users' = users
            /\ \A x \in RoleIds : x # id => roles'[x] = roles[x]
            /\ \A k \in DOMAIN rolePermissions :
                    k[1] # id => rolePermissions'[k] = rolePermissions[k]
            /\ \A k \in DOMAIN userRoles :
                    k[2] # id => userRoles'[k] = userRoles[k]
            /\ slots'[r].res.status = 200 =>
                    /\ roles'[id] = NoRole
                    /\ \A k \in DOMAIN rolePermissions :
                            k[1] = id => rolePermissions'[k] = 0
            /\ (slots'[r].pc = "done" /\ slots'[r].res.status # 200) =>
                    /\ roles' = roles /\ userRoles' = userRoles
                    /\ rolePermissions' = rolePermissions

TypeOK ==
    /\ now \in 0..MaxTime
    /\ nreq \in 0..(MaxRequests + MaxSession)
====
